---- MODULE Spec2Model ----
(***************************************************************************)
(* The clay strips brush of source/blender/editors/sculpt_paint/brushes/   *)
(* clay_strips.cc: one stroke step (do_clay_strips_brush) over the nodes   *)
(* of a spatial partition tree, with the per-node jobs calc_faces /        *)
(* calc_grids / calc_bmesh run by worker threads in any interleaving.      *)
(*                                                                         *)
(* Numbers: a float is a fixed-point integer with unit One (1.0 = One).    *)
(* Products and quotients round towards zero.  Directions (surface normal, *)
(* drag delta) are axis-aligned, which keeps normalize, cross and invert   *)
(* exact.                                                                  *)
(***************************************************************************)
EXTENDS Integers, Sequences, FiniteSets, TLC

\* ------------------------------------------------------------- bounds
\* Leaf nodes of the tree; the last one owns no vertices.
NumNodes == 3
\* Elements hidden in addition, when two steps are compared.
MaxExtraHidden == 2
\* Worker threads of the pool running node_mask.foreach_index.
MaxThreads == 2
\* Elements of one grid (key.grid_area); a mesh/bmesh node of the same
\* surface owns the same elements as vertices.
GridArea == 2

\* ------------------------------------------------------- fixed point
One == 10 * 10

Abs(x) == IF x < 0 THEN -x ELSE x
Sgn(x) == IF x < 0 THEN -1 ELSE IF x > 0 THEN 1 ELSE 0
Min(a, b) == IF a < b THEN a ELSE b
Max(a, b) == IF a > b THEN a ELSE b
\* Division rounding towards zero (b # 0).
TDiv(a, b) == Sgn(a) * Sgn(b) * (Abs(a) \div Abs(b))
FMul(a, b) == TDiv(a * b, One)

\* ------------------------------------------------------------ float3
Zero3 == <<0, 0, 0>>
VAdd(a, b) == <<a[1] + b[1], a[2] + b[2], a[3] + b[3]>>
VSub(a, b) == <<a[1] - b[1], a[2] - b[2], a[3] - b[3]>>
VNeg(a) == <<-a[1], -a[2], -a[3]>>
\* vector * float
VScale(a, s) == <<FMul(a[1], s), FMul(a[2], s), FMul(a[3], s)>>
\* dot product of two fixed-point vectors, as a fixed-point number
Dot(a, b) == TDiv(a[1] * b[1] + a[2] * b[2] + a[3] * b[3], One)
Cross(a, b) == <<TDiv(a[2] * b[3] - a[3] * b[2], One),
                 TDiv(a[3] * b[1] - a[1] * b[3], One),
                 TDiv(a[1] * b[2] - a[2] * b[1], One)>>
is_zero(a) == a = Zero3
\* |a| for a vector with at most one non-zero component
AxisLength(a) == Abs(a[1]) + Abs(a[2]) + Abs(a[3])
\* math::normalize: the zero vector stays zero
Normalize(a) == <<Sgn(a[1]) * One, Sgn(a[2]) * One, Sgn(a[3]) * One>>
LengthSquared(a) == a[1] * a[1] + a[2] * a[2] + a[3] * a[3]
UnitAxis(k) == <<IF k = 1 THEN One ELSE 0, IF k = 2 THEN One ELSE 0, IF k = 3 THEN One ELSE 0>>

RECURSIVE SumSeq(_)
SumSeq(s) == IF s = <<>> THEN 0 ELSE Head(s) + SumSeq(Tail(s))
RECURSIVE SetToSeq(_)
\* the elements of a finite set of integers in ascending order
SetToSeq(S) == IF S = {} THEN <<>>
               ELSE LET m == CHOOSE x \in S : \A y \in S : x <= y
                    IN <<m>> \o SetToSeq(S \ {m})
SeqRange(s) == {s[i] : i \in DOMAIN s}

\* --------------------------------------------------- the partition tree
Nodes == 1..NumNodes
\* grids owned by node n; the last node is empty
NodeGridCount(n) == IF n = NumNodes THEN 0 ELSE 1 + ((n + 1) % 2)
\* grids of the nodes before n
GridsBefore(n) == SumSeq([k \in 1..(n - 1) |-> NodeGridCount(k)])
NumGrids == GridsBefore(NumNodes + 1)
NumVerts == NumGrids * GridArea
Verts == 1..NumVerts
\* bke::ccg::grid_range: the elements of grid g in subdiv_ccg.positions
grid_range(g) == [c \in 1..GridArea |-> (g - 1) * GridArea + c]
\* GridsNode::grids()
NodeGrids(n) == [k \in 1..NodeGridCount(n) |-> GridsBefore(n) + k]
\* MeshNode::verts(): the vertices the node owns
NodeVerts(n) == [k \in 1..(NodeGridCount(n) * GridArea) |-> GridsBefore(n) * GridArea + k]
\* BKE_pbvh_bmesh_node_unique_verts
NodeUniqueVerts(n) == SeqRange(NodeVerts(n))

PbvhTypes == {"Mesh", "Grids", "BMesh"}
\* curve presets modelled: BRUSH_CURVE_LIN, BRUSH_CURVE_CONSTANT, BRUSH_CURVE_SHARP
CurvePresets == {"LIN", "CONSTANT", "SHARP"}
\* distance of a vertex that takes no part (FLT_MAX)
FLT_MAX == 1000 * One
\* Bounds<float3> with min > max: negative_bounds()
negative_bounds == [min |-> <<FLT_MAX, FLT_MAX, FLT_MAX>>,
                    max |-> <<-FLT_MAX, -FLT_MAX, -FLT_MAX>>]

\* ------------------------------------------------------------- state
VARIABLES
  pbvhType,      \* pbvh.type()
  node_mask,     \* the nodes the stroke touched
  nthreads,      \* worker threads of the pool
  cache,         \* StrokeCache: grab_delta_symm, bstrength, radius, hardness, scale,
                 \*   view_normal_symm, mirror_clip (axes clipped at 0)
  brush,         \* Brush settings
  sd,            \* Sculpt settings: lock (axes locked)
  ss,            \* SculptSession: normal (what surface sampling returns), region_clip
  hide_vert,     \* hidden elements
  mask,          \* paint mask per element, 0..One
  automask,      \* automasking weight per element, 0..One
  texture,       \* texture sample per element, 0..One
  positions,     \* the representation's position buffer
  bounds,        \* bounds of each leaf node
  parent_bounds, \* bounds of the root, set by flush_bounds_to_parents
  pos0,          \* positions when the step was invoked
  bounds0,       \* node bounds when the step was invoked
  pc,            \* "Idle", "Stepping", "Joined", "Tagged", "Returned"
  step,          \* the step's locals: flip, strength, plane, mat
  pending,       \* mask indices not yet handed to a thread
  finished,      \* mask indices whose job has completed
  job,           \* per thread: the node in work and the position in the lambda
  all_tls,       \* EnumerableThreadSpecific<LocalData>: the instance of each thread
  tls_created,   \* the threads whose instance has been created (first local() call)
  writes,        \* per node: the position elements its job wrote
  runs,          \* per node: the jobs begun for it in this step
  obtained,      \* per thread: the LocalData instances local() returned to it
  bounds_writes, \* per node: the leaf nodes whose bounds its job has written
  tag_count,     \* calls of pbvh.tag_positions_changed
  flush_count    \* calls of flush_bounds_to_parents

config == <<pbvhType, node_mask, nthreads, cache, brush, sd, ss, hide_vert, mask,
            automask, texture, pos0, bounds0>>
vars == <<pbvhType, node_mask, nthreads, cache, brush, sd, ss, hide_vert, mask,
          automask, texture, pos0, bounds0, positions, bounds, parent_bounds, pc, step,
          pending, finished, job, all_tls, tls_created, writes, runs, obtained,
          bounds_writes, tag_count, flush_count>>

Threads == 1..MaxThreads

\* ------------------------------------------ the brush-local transform
\* math::transform_point(mat, p) for mat = math::invert(tmat), tmat with
\* orthogonal axes: component k is dot(p - location, axis k) / |axis k|^2.
\* math::invert of a singular matrix is the zero matrix: every point maps to 0.
LocalCoord(axis, d) ==
  IF LengthSquared(axis) = 0 THEN 0
  ELSE TDiv((axis[1] * d[1] + axis[2] * d[2] + axis[3] * d[3]) * One, LengthSquared(axis))
transform_point(m, p) ==
  IF LengthSquared(m.x_axis) = 0 \/ LengthSquared(m.y_axis) = 0 \/ LengthSquared(m.z_axis) = 0
  THEN Zero3
  ELSE LET d == VSub(p, m.location)
       IN <<LocalCoord(m.x_axis, d), LocalCoord(m.y_axis, d), LocalCoord(m.z_axis, d)>>

\* plane_from_point_normal_v3
plane_from_point_normal(point, normal) == [normal |-> normal, d |-> -Dot(normal, point)]
\* plane_point_side_v3
plane_point_side(pl, p) == Dot(pl.normal, p) + pl.d

\* ------------------------------------------------ the factor pipeline
\* Every stage works on the span it is handed: element i of a buffer belongs
\* to element idx[i] of the node.

\* factor 1 - mask for a visible element, 0 for a hidden one
fill_factor_from_hide_and_mask(H, M, idx, factors) ==
  [i \in DOMAIN factors |-> IF idx[i] \in H THEN 0 ELSE One - M[idx[i]]]

\* ss.clip: "none", or [axis, max]: elements beyond max on axis are clipped away
filter_region_clip_factors(clip, P, idx, factors) ==
  [i \in DOMAIN factors |->
     IF clip # "none" /\ P[idx[i]][clip.axis] > clip.max THEN 0 ELSE factors[i]]

\* normal of element v: flat surface, every third element faces away
VertNormal(normal, v) == IF v % 3 = 0 THEN VNeg(normal) ELSE normal
calc_front_face(view_normal, normal, idx, factors) ==
  [i \in DOMAIN factors |->
     IF Dot(view_normal, VertNormal(normal, idx[i])) <= 0 THEN 0 ELSE factors[i]]

\* Cube test in brush-local space: an element outside the unit cube (any axis)
\* or with factor 0 gets FLT_MAX; inside, the distance is the larger of the
\* local X and Y magnitudes (no falloff in Z).
calc_brush_cube_distances(m, P, idx, distances, factors) ==
  [i \in DOMAIN distances |->
     IF factors[i] = 0 THEN FLT_MAX
     ELSE LET l == transform_point(m, P[idx[i]])
          IN IF Max(Abs(l[1]), Max(Abs(l[2]), Abs(l[3]))) > One THEN FLT_MAX
             ELSE Max(Abs(l[1]), Abs(l[2]))]

filter_distances_with_radius(radius, distances, factors) ==
  [i \in DOMAIN factors |-> IF distances[i] > radius THEN 0 ELSE factors[i]]

\* hardness 0: unchanged; below hardness * radius: 0; else rescaled to
\* (d / radius - hardness) / (1 - hardness) * radius
apply_hardness_to_distances(radius, hardness, distances) ==
  IF hardness = 0 THEN distances
  ELSE [i \in DOMAIN distances |->
          IF distances[i] < FMul(hardness, radius) THEN 0
          ELSE IF hardness = One THEN radius
          ELSE FMul(TDiv((TDiv(distances[i] * One, radius) - hardness) * One,
                         One - hardness), radius)]

\* the falloff curve at distance d of radius
CurveValue(preset, d, radius) ==
  IF d >= radius THEN 0
  ELSE LET x == One - TDiv(d * One, radius)
       IN CASE preset = "LIN" -> x
            [] preset = "CONSTANT" -> One
            [] preset = "SHARP" -> FMul(x, x)
BKE_brush_calc_curve_factors(preset, distances, radius, factors) ==
  [i \in DOMAIN factors |-> FMul(factors[i], CurveValue(preset, distances[i], radius))]

\* auto_mask::calc_vert_factors / calc_grids_factors
auto_mask_calc_factors(A, idx, factors) ==
  [i \in DOMAIN factors |-> FMul(factors[i], A[idx[i]])]
calc_brush_texture_factors(T, idx, factors) ==
  [i \in DOMAIN factors |-> FMul(factors[i], T[idx[i]])]
scale_factors(factors, strength) ==
  [i \in DOMAIN factors |-> FMul(factors[i], strength)]

filter_below_plane_factors(P, idx, pl, factors) ==
  [i \in DOMAIN factors |-> IF plane_point_side(pl, P[idx[i]]) < 0 THEN 0 ELSE factors[i]]
filter_above_plane_factors(P, idx, pl, factors) ==
  [i \in DOMAIN factors |-> IF plane_point_side(pl, P[idx[i]]) > 0 THEN 0 ELSE factors[i]]

\* ---------------------------------------------------- plane projection
\* closest point on the plane minus the position
calc_translations_to_plane(P, idx, pl, translations) ==
  [i \in DOMAIN translations |-> VScale(pl.normal, -plane_point_side(pl, P[idx[i]]))]

\* with a trim limit configured: factor 0 where the translation is longer
filter_plane_trim_limit_factors(b, translations, factors) ==
  IF ~b.plane_trim_on THEN factors
  ELSE [i \in DOMAIN factors |->
          IF LengthSquared(translations[i]) > b.plane_trim * b.plane_trim THEN 0
          ELSE factors[i]]

scale_translations(translations, factors) ==
  [i \in DOMAIN translations |-> VScale(translations[i], factors[i])]

\* ------------------------------------------ translation clip and lock
\* One component: 0 on a locked axis; on an axis clipped at the mirror
\* boundary 0, the element stays on its side (an element on the boundary
\* stays on it).
ClipLockComponent(locked, clipped, p, t) ==
  IF locked THEN 0
  ELSE IF ~clipped THEN t
  ELSE IF p > 0 THEN Max(t, -p)
  ELSE IF p < 0 THEN Min(t, -p)
  ELSE 0
clip_and_lock_translations(lock, clip, P, idx, translations) ==
  [i \in DOMAIN translations |->
     LET c(a) == ClipLockComponent(a \in lock, a \in clip, P[idx[i]][a], translations[i][a])
     IN <<c(1), c(2), c(3)>>]

\* ------------------------------------------------- scratch buffers
\* what a new element of a resized Vector holds before it is written
Uninit == -(7 * One)
\* Vector::resize: the first elements are kept, new ones are not initialised
Resize(buf, n, junk) == [i \in 1..n |-> IF i <= Len(buf) THEN buf[i] ELSE junk]
\* a new LocalData
EmptyLocalData == [positions |-> <<>>, factors |-> <<>>, distances |-> <<>>,
                   translations |-> <<>>]

\* gather_grids_positions: the elements of the node's grids, grid after grid
GridElements(n) ==
  [k \in 1..(NodeGridCount(n) * GridArea) |->
     grid_range(NodeGrids(n)[((k - 1) \div GridArea) + 1])[((k - 1) % GridArea) + 1]]
gather_grids_positions(P, n) == [k \in DOMAIN GridElements(n) |-> P[GridElements(n)[k]]]
\* gather_bmesh_positions: the node's unique vertices in the set's iteration order
BMeshElements(n) == SetToSeq(NodeUniqueVerts(n))
gather_bmesh_positions(P, n) == [k \in DOMAIN BMeshElements(n) |-> P[BMeshElements(n)[k]]]
\* a gathered copy read like the position buffer: element idx[k] is copy[k]
Gathered(idx, copy) == [v \in SeqRange(idx) |-> copy[CHOOSE k \in DOMAIN idx : idx[k] = v]]

\* ------------------------------------------------------- the adapters
\* H: hidden elements, P: position buffer, S: the step's locals, n: node,
\* tls: the thread's LocalData.  Result: the LocalData when the translations
\* are ready to be applied.

\* the trim filter without the scaling of the translations by the factors
TrimScaleUnscaled(r, t1) ==
  [r EXCEPT !.factors = filter_plane_trim_limit_factors(brush, t1, r.factors),
            !.translations = t1]
\* The second half of an adapter, on the LocalData r its first half left.
\* filter_plane_trim_limit_factors, then scale_translations
TrimScale(r, t1) ==
  [r EXCEPT !.factors = filter_plane_trim_limit_factors(brush, t1, r.factors),
            !.translations =
               scale_translations(t1, filter_plane_trim_limit_factors(brush, t1, r.factors))]
\* the translations buffer cut to the node's size but never grown
ProjectTrimScaleNoGrow(r, P, idx, S) ==
  TrimScale(r, calc_translations_to_plane(
                 P, idx, S.plane,
                 Resize(r.translations, Min(Len(idx), Len(r.translations)),
                        <<Uninit, Uninit, Uninit>>)))
\* the translations scaled first, the trim filter deciding on the scaled ones
ScaleTrim(r, t1) ==
  [r EXCEPT !.factors =
              filter_plane_trim_limit_factors(brush, scale_translations(t1, r.factors), r.factors),
            !.translations =
              scale_translations(
                t1, filter_plane_trim_limit_factors(brush, scale_translations(t1, r.factors),
                                                    r.factors))]
ProjectScaleTrim(r, P, idx, S) ==
  ScaleTrim(r, calc_translations_to_plane(
                 P, idx, S.plane, Resize(r.translations, Len(idx), <<Uninit, Uninit, Uninit>>)))
\* translations resized, calc_translations_to_plane, trim filter, scaling
ProjectTrimScale(r, P, idx, S) ==
  TrimScale(r, calc_translations_to_plane(
                 P, idx, S.plane, Resize(r.translations, Len(idx), <<Uninit, Uninit, Uninit>>)))
\* the translations handed on at twice their length
ClipLockDoubled(r, P, idx) ==
  [r EXCEPT !.translations =
     [i \in DOMAIN @ |->
        VScale(clip_and_lock_translations(sd.lock, cache.mirror_clip, P, idx, @)[i], 2 * One)]]
\* clip_and_lock_translations on the scaled translations
ClipLock(r, P, idx) ==
  [r EXCEPT !.translations = clip_and_lock_translations(sd.lock, cache.mirror_clip, P, idx, @)]

\* calc_faces, lines 62-89: the factors before the trim filter, and the distances
calc_faces_factors(H, P, S, n, tls) ==
  LET verts == NodeVerts(n)
      f0 == Resize(tls.factors, Len(verts), Uninit)
      f1 == fill_factor_from_hide_and_mask(H, mask, verts, f0)
      f2 == filter_region_clip_factors(ss.region_clip, P, verts, f1)
      f3 == IF brush.frontface
            THEN calc_front_face(cache.view_normal_symm, ss.normal, verts, f2)
            ELSE f2
      d0 == Resize(tls.distances, Len(verts), Uninit)
      d1 == calc_brush_cube_distances(S.mat, P, verts, d0, f3)
      f4 == filter_distances_with_radius(One, d1, f3)
      d2 == apply_hardness_to_distances(One, cache.hardness, d1)
      f5 == BKE_brush_calc_curve_factors(brush.curve_preset, d2, One, f4)
      f6 == auto_mask_calc_factors(automask, verts, f5)
      f7 == calc_brush_texture_factors(texture, verts, f6)
      f8 == scale_factors(f7, S.strength)
      f9 == IF S.flip THEN filter_below_plane_factors(P, verts, S.plane, f8)
            ELSE filter_above_plane_factors(P, verts, S.plane, f8)
  IN [positions |-> tls.positions, factors |-> f9, distances |-> d2,
      translations |-> tls.translations]
\* calc_faces without its trim filter
calc_faces_scaled_no_trim(H, P, S, n, tls) ==
  LET r == calc_faces_factors(H, P, S, n, tls)
      t1 == calc_translations_to_plane(
              P, NodeVerts(n), S.plane,
              Resize(r.translations, Len(NodeVerts(n)), <<Uninit, Uninit, Uninit>>))
  IN [r EXCEPT !.translations = scale_translations(t1, r.factors)]
\* calc_faces, lines 91-95: projection, trim filter, scaling by the factors
calc_faces_scaled(H, P, S, n, tls) ==
  ProjectTrimScale(calc_faces_factors(H, P, S, n, tls), P, NodeVerts(n), S)
\* calc_faces without clip_and_lock_translations
calc_faces_unlocked(H, P, S, n, tls) == calc_faces_scaled(H, P, S, n, tls)
\* calc_faces, line 97: the translations handed to position_data.deform
calc_faces(H, P, S, n, tls) ==
  ClipLock(calc_faces_scaled(H, P, S, n, tls), P, NodeVerts(n))

\* calc_grids, lines 117-145
calc_grids_factors(H, P, S, n, tls) ==
  LET elems == GridElements(n)
      positions_ == gather_grids_positions(P, n)
      G == Gathered(elems, positions_)
      f0 == Resize(tls.factors, Len(positions_), Uninit)
      f1 == fill_factor_from_hide_and_mask(H, mask, elems, f0)
      f2 == filter_region_clip_factors(ss.region_clip, G, elems, f1)
      f3 == IF brush.frontface
            THEN calc_front_face(cache.view_normal_symm, ss.normal, elems, f2)
            ELSE f2
      d0 == Resize(tls.distances, Len(positions_), Uninit)
      d1 == calc_brush_cube_distances(S.mat, G, elems, d0, f3)
      f4 == filter_distances_with_radius(One, d1, f3)
      f5 == BKE_brush_calc_curve_factors(brush.curve_preset, d1, One, f4)
      f6 == auto_mask_calc_factors(automask, elems, f5)
      f7 == calc_brush_texture_factors(texture, elems, f6)
      f8 == scale_factors(f7, S.strength)
      f9 == IF S.flip THEN filter_below_plane_factors(G, elems, S.plane, f8)
            ELSE filter_above_plane_factors(G, elems, S.plane, f8)
  IN [positions |-> positions_, factors |-> f9, distances |-> d1,
      translations |-> tls.translations]
\* calc_grids scaling its translations by the factors a second time
calc_grids_scaled_twice(H, P, S, n, tls) ==
  [translations |->
     scale_translations(
       ProjectTrimScale(calc_grids_factors(H, P, S, n, tls),
                        Gathered(GridElements(n), gather_grids_positions(P, n)),
                        GridElements(n), S).translations,
       calc_grids_factors(H, P, S, n, tls).factors),
   factors |-> ProjectTrimScale(calc_grids_factors(H, P, S, n, tls),
                                Gathered(GridElements(n), gather_grids_positions(P, n)),
                                GridElements(n), S).factors,
   distances |-> calc_grids_factors(H, P, S, n, tls).distances,
   positions |-> calc_grids_factors(H, P, S, n, tls).positions]
\* calc_grids, lines 147-151
calc_grids_scaled(H, P, S, n, tls) ==
  ProjectTrimScale(calc_grids_factors(H, P, S, n, tls),
                   Gathered(GridElements(n), gather_grids_positions(P, n)), GridElements(n), S)
\* calc_grids reading no hide state
calc_grids_no_hide(H, P, S, n, tls) ==
  ClipLock(calc_grids_scaled({}, P, S, n, tls),
           Gathered(GridElements(n), gather_grids_positions(P, n)), GridElements(n))
\* calc_grids, line 153: the translations handed to apply_translations
calc_grids(H, P, S, n, tls) ==
  ClipLock(calc_grids_scaled(H, P, S, n, tls),
           Gathered(GridElements(n), gather_grids_positions(P, n)), GridElements(n))

\* calc_bmesh without the fill of the factors from hide and mask: the
\* pipeline starts from what the resized buffer holds
calc_bmesh_factors_no_fill(H, P, S, n, tls) ==
  LET verts == BMeshElements(n)
      positions_ == gather_bmesh_positions(P, n)
      G == Gathered(verts, positions_)
      f0 == Resize(tls.factors, Len(verts), Uninit)
      f1 == f0
      f2 == filter_region_clip_factors(ss.region_clip, G, verts, f1)
      f3 == IF brush.frontface
            THEN calc_front_face(cache.view_normal_symm, ss.normal, verts, f2)
            ELSE f2
      d0 == Resize(tls.distances, Len(verts), Uninit)
      d1 == calc_brush_cube_distances(S.mat, G, verts, d0, f3)
      f4 == filter_distances_with_radius(One, d1, f3)
      f5 == BKE_brush_calc_curve_factors(brush.curve_preset, d1, One, f4)
      f6 == auto_mask_calc_factors(automask, verts, f5)
      f7 == calc_brush_texture_factors(texture, verts, f6)
      f8 == scale_factors(f7, S.strength)
      f9 == IF S.flip THEN filter_below_plane_factors(G, verts, S.plane, f8)
            ELSE filter_above_plane_factors(G, verts, S.plane, f8)
  IN [positions |-> positions_, factors |-> f9, distances |-> d1,
      translations |-> tls.translations]
\* calc_bmesh, lines 171-200
calc_bmesh_factors(H, P, S, n, tls) ==
  LET verts == BMeshElements(n)
      positions_ == gather_bmesh_positions(P, n)
      G == Gathered(verts, positions_)
      f0 == Resize(tls.factors, Len(verts), Uninit)
      f1 == fill_factor_from_hide_and_mask(H, mask, verts, f0)
      f2 == filter_region_clip_factors(ss.region_clip, G, verts, f1)
      f3 == IF brush.frontface
            THEN calc_front_face(cache.view_normal_symm, ss.normal, verts, f2)
            ELSE f2
      d0 == Resize(tls.distances, Len(verts), Uninit)
      d1 == calc_brush_cube_distances(S.mat, G, verts, d0, f3)
      f4 == filter_distances_with_radius(One, d1, f3)
      f5 == BKE_brush_calc_curve_factors(brush.curve_preset, d1, One, f4)
      f6 == auto_mask_calc_factors(automask, verts, f5)
      f7 == calc_brush_texture_factors(texture, verts, f6)
      f8 == scale_factors(f7, S.strength)
      f9 == IF S.flip THEN filter_below_plane_factors(G, verts, S.plane, f8)
            ELSE filter_above_plane_factors(G, verts, S.plane, f8)
  IN [positions |-> positions_, factors |-> f9, distances |-> d1,
      translations |-> tls.translations]
\* calc_bmesh testing against a cube twice as wide in X
calc_bmesh_scaled_wide(H, P, S, n, tls) ==
  ProjectTrimScale(calc_bmesh_factors(H, P, [S EXCEPT !.mat.x_axis = VScale(@, 2 * One)], n, tls),
                   Gathered(BMeshElements(n), gather_bmesh_positions(P, n)), BMeshElements(n), S)
\* calc_bmesh, lines 202-206
calc_bmesh_scaled(H, P, S, n, tls) ==
  ProjectTrimScale(calc_bmesh_factors(H, P, S, n, tls),
                   Gathered(BMeshElements(n), gather_bmesh_positions(P, n)), BMeshElements(n), S)
\* calc_bmesh without clip_and_lock_translations
calc_bmesh_unclipped(H, P, S, n, tls) == calc_bmesh_scaled(H, P, S, n, tls)
\* calc_bmesh, line 208: the translations handed to apply_translations
calc_bmesh(H, P, S, n, tls) ==
  ClipLock(calc_bmesh_scaled(H, P, S, n, tls),
           Gathered(BMeshElements(n), gather_bmesh_positions(P, n)), BMeshElements(n))

\* the elements a node's job gathers, by representation
NodeElements(type, n) ==
  CASE type = "Mesh" -> NodeVerts(n)
    [] type = "Grids" -> GridElements(n)
    [] type = "BMesh" -> BMeshElements(n)
\* the adapter handed the visible elements as the hidden ones
calc_node_hide_complement(type, H, P, S, n, tls) ==
  CASE type = "Mesh" -> calc_faces(Verts \ H, P, S, n, tls)
    [] type = "Grids" -> calc_grids(Verts \ H, P, S, n, tls)
    [] type = "BMesh" -> calc_bmesh(Verts \ H, P, S, n, tls)
\* the adapter of a representation
calc_node(type, H, P, S, n, tls) ==
  CASE type = "Mesh" -> calc_faces(H, P, S, n, tls)
    [] type = "Grids" -> calc_grids(H, P, S, n, tls)
    [] type = "BMesh" -> calc_bmesh(H, P, S, n, tls)

\* the adapter before clip and lock, by representation
calc_node_scaled(type, H, P, S, n, tls) ==
  CASE type = "Mesh" -> calc_faces_scaled(H, P, S, n, tls)
    [] type = "Grids" -> calc_grids_scaled(H, P, S, n, tls)
    [] type = "BMesh" -> calc_bmesh_scaled(H, P, S, n, tls)

\* ---------------------------------------------- the adapters, stage by stage
\* The calls of each adapter that work on the scratch buffers, in the order
\* of its statements (lines 64-97, 120-153, 175-208).
calc_faces_stages ==
  <<"fill_factor_from_hide_and_mask", "filter_region_clip_factors", "calc_front_face",
    "calc_brush_cube_distances", "filter_distances_with_radius",
    "apply_hardness_to_distances", "BKE_brush_calc_curve_factors",
    "auto_mask_calc_factors", "calc_brush_texture_factors", "scale_factors",
    "filter_below_plane_factors", "filter_above_plane_factors",
    "calc_translations_to_plane", "filter_plane_trim_limit_factors",
    "scale_translations", "clip_and_lock_translations">>
\* calc_grids with the texture sampled before the automasking
calc_grids_stages_swapped ==
  <<"fill_factor_from_hide_and_mask", "filter_region_clip_factors", "calc_front_face",
    "calc_brush_cube_distances", "filter_distances_with_radius",
    "BKE_brush_calc_curve_factors",
    "calc_brush_texture_factors", "auto_mask_calc_factors", "scale_factors",
    "filter_below_plane_factors", "filter_above_plane_factors",
    "calc_translations_to_plane", "filter_plane_trim_limit_factors",
    "scale_translations", "clip_and_lock_translations">>
calc_grids_stages ==
  <<"fill_factor_from_hide_and_mask", "filter_region_clip_factors", "calc_front_face",
    "calc_brush_cube_distances", "filter_distances_with_radius",
    "BKE_brush_calc_curve_factors",
    "auto_mask_calc_factors", "calc_brush_texture_factors", "scale_factors",
    "filter_below_plane_factors", "filter_above_plane_factors",
    "calc_translations_to_plane", "filter_plane_trim_limit_factors",
    "scale_translations", "clip_and_lock_translations">>
calc_bmesh_stages ==
  <<"fill_factor_from_hide_and_mask", "filter_region_clip_factors", "calc_front_face",
    "calc_brush_cube_distances", "filter_distances_with_radius",
    "BKE_brush_calc_curve_factors",
    "auto_mask_calc_factors", "calc_brush_texture_factors", "scale_factors",
    "filter_below_plane_factors", "filter_above_plane_factors",
    "calc_translations_to_plane", "filter_plane_trim_limit_factors",
    "scale_translations", "clip_and_lock_translations">>
calc_node_stages(type) ==
  CASE type = "Mesh" -> calc_faces_stages
    [] type = "Grids" -> calc_grids_stages
    [] type = "BMesh" -> calc_bmesh_stages

\* the branch a call stands in: front face under BRUSH_FRONTFACE, the plane
\* side filters under flip / not flip
StageRuns(name, S) ==
  CASE name = "calc_front_face" -> brush.frontface
    [] name = "filter_below_plane_factors" -> S.flip
    [] name = "filter_above_plane_factors" -> ~S.flip
    [] OTHER -> TRUE

\* One call on the LocalData r; a buffer is resized where the adapter
\* resizes it, before the first call that uses it.
ApplyStage(name, H, P, idx, S, r) ==
  CASE name = "fill_factor_from_hide_and_mask" ->
         [r EXCEPT !.factors = fill_factor_from_hide_and_mask(
                                  H, mask, idx, Resize(r.factors, Len(idx), Uninit))]
    [] name = "filter_region_clip_factors" ->
         [r EXCEPT !.factors = filter_region_clip_factors(ss.region_clip, P, idx, r.factors)]
    [] name = "calc_front_face" ->
         [r EXCEPT !.factors = calc_front_face(cache.view_normal_symm, ss.normal, idx, r.factors)]
    [] name = "calc_brush_cube_distances" ->
         [r EXCEPT !.distances = calc_brush_cube_distances(
                                    S.mat, P, idx, Resize(r.distances, Len(idx), Uninit),
                                    r.factors)]
    [] name = "filter_distances_with_radius" ->
         [r EXCEPT !.factors = filter_distances_with_radius(One, r.distances, r.factors)]
    [] name = "apply_hardness_to_distances" ->
         [r EXCEPT !.distances = apply_hardness_to_distances(One, cache.hardness, r.distances)]
    [] name = "BKE_brush_calc_curve_factors" ->
         [r EXCEPT !.factors = BKE_brush_calc_curve_factors(
                                  brush.curve_preset, r.distances, One, r.factors)]
    [] name = "auto_mask_calc_factors" ->
         [r EXCEPT !.factors = auto_mask_calc_factors(automask, idx, r.factors)]
    [] name = "calc_brush_texture_factors" ->
         [r EXCEPT !.factors = calc_brush_texture_factors(texture, idx, r.factors)]
    [] name = "scale_factors" ->
         [r EXCEPT !.factors = scale_factors(r.factors, S.strength)]
    [] name = "filter_below_plane_factors" ->
         [r EXCEPT !.factors = filter_below_plane_factors(P, idx, S.plane, r.factors)]
    [] name = "filter_above_plane_factors" ->
         [r EXCEPT !.factors = filter_above_plane_factors(P, idx, S.plane, r.factors)]
    [] name = "calc_translations_to_plane" ->
         [r EXCEPT !.translations = calc_translations_to_plane(
                                       P, idx, S.plane,
                                       Resize(r.translations, Len(idx),
                                              <<Uninit, Uninit, Uninit>>))]
    [] name = "filter_plane_trim_limit_factors" ->
         [r EXCEPT !.factors = filter_plane_trim_limit_factors(brush, r.translations, r.factors)]
    [] name = "scale_translations" ->
         [r EXCEPT !.translations = scale_translations(r.translations, r.factors)]
    [] name = "clip_and_lock_translations" ->
         [r EXCEPT !.translations = clip_and_lock_translations(
                                       sd.lock, cache.mirror_clip, P, idx, r.translations)]

\* The LocalData after each call that runs, in the order of the calls.
RECURSIVE StageTrace(_, _, _, _, _, _)
StageTrace(stages, H, P, idx, S, r) ==
  IF stages = <<>> THEN <<>>
  ELSE IF ~StageRuns(Head(stages), S) THEN StageTrace(Tail(stages), H, P, idx, S, r)
  ELSE <<[stage |-> Head(stages), data |-> ApplyStage(Head(stages), H, P, idx, S, r)]>>
       \o StageTrace(Tail(stages), H, P, idx, S, ApplyStage(Head(stages), H, P, idx, S, r))

\* the positions an adapter's calls read: position_data.eval for a mesh node,
\* the gathered copy for the others
StagePositions(type, P, n) ==
  CASE type = "Mesh" -> P
    [] type = "Grids" -> Gathered(GridElements(n), gather_grids_positions(P, n))
    [] type = "BMesh" -> Gathered(BMeshElements(n), gather_bmesh_positions(P, n))
\* the LocalData an adapter starts its calls with: the gather has filled
\* tls.positions (grids, bmesh)
StageStart(type, P, n, tls) ==
  CASE type = "Mesh" -> tls
    [] type = "Grids" -> [tls EXCEPT !.positions = gather_grids_positions(P, n)]
    [] type = "BMesh" -> [tls EXCEPT !.positions = gather_bmesh_positions(P, n)]
\* the adapter of node n, call by call
NodeTrace(type, H, P, S, n, tls) ==
  StageTrace(calc_node_stages(type), H, StagePositions(type, P, n), NodeElements(type, n), S,
             StageStart(type, P, n, tls))

\* position_data.deform / apply_translations: add translation i to element idx[i]
apply_translations(P, idx, translations) ==
  [v \in DOMAIN P |->
     IF \E i \in DOMAIN idx \cap DOMAIN translations : idx[i] = v
     THEN VAdd(P[v], translations[CHOOSE i \in DOMAIN idx \cap DOMAIN translations : idx[i] = v])
     ELSE P[v]]
\* the elements a scatter writes
ScatterTargets(idx, translations) == {idx[i] : i \in DOMAIN idx \cap DOMAIN translations}

\* update_node_bounds_mesh / _grids / _bmesh: the box around the node's elements
BoundsOf(P, S) ==
  IF S = {} THEN negative_bounds
  ELSE LET lo(a) == CHOOSE x \in {P[v][a] : v \in S} : \A w \in S : x <= P[w][a]
           hi(a) == CHOOSE x \in {P[v][a] : v \in S} : \A w \in S : x >= P[w][a]
       IN [min |-> <<lo(1), lo(2), lo(3)>>, max |-> <<hi(1), hi(2), hi(3)>>]
update_node_bounds(type, P, n) == BoundsOf(P, SeqRange(NodeElements(type, n)))
\* flush_bounds_to_parents: the root's box is the union of the leaves' boxes
MergeBounds(a, b) ==
  [min |-> <<Min(a.min[1], b.min[1]), Min(a.min[2], b.min[2]), Min(a.min[3], b.min[3])>>,
   max |-> <<Max(a.max[1], b.max[1]), Max(a.max[2], b.max[2]), Max(a.max[3], b.max[3])>>]
RECURSIVE MergeAll(_, _)
MergeAll(B, k) == IF k = 0 THEN negative_bounds ELSE MergeBounds(MergeAll(B, k - 1), B[k])
flush_bounds_to_parents(B) == MergeAll(B, NumNodes)

\* ------------------------------------------------ the stroke step
\* 0.18f of displace, 0.7f of area_position_displaced, 1.25f of the Z scale
PlaneDisplaceFactor == 18
CubeDisplaceFactor == 70
CubeZScale == 125

\* the guard testing another vector of the cache
DegenerateStrokeWrongField == is_zero(cache.view_normal_symm)
\* The early return of the step.
DegenerateStroke == is_zero(cache.grab_delta_symm)

\* calc_brush_plane: the average position of the elements of the touched
\* nodes, and the sampled normal
TouchedElements(type, nm) == UNION {SeqRange(NodeElements(type, n)) : n \in nm}
AveragePosition(P, S) ==
  IF S = {} THEN Zero3
  ELSE LET q == SetToSeq(S)
           c(a) == TDiv(SumSeq([k \in DOMAIN q |-> P[q[k]][a]]), Len(q))
       IN <<c(1), c(2), c(3)>>
calc_brush_plane(type, P, nm) ==
  [normal |-> ss.normal, position |-> AveragePosition(P, TouchedElements(type, nm))]
\* calc_area_normal(...).value_or(float3(0))
calc_area_normal(type, nm) == IF TouchedElements(type, nm) = {} THEN Zero3 ELSE ss.normal
\* SCULPT_tilt_apply_to_normal with no tilt (tilt_strength_factor = 0)
SCULPT_tilt_apply_to_normal(normal) == normal
\* SCULPT_brush_plane_offset_get
SCULPT_brush_plane_offset_get == brush.plane_offset

\* the strength with its sign
StepStrengthSigned == cache.bstrength
\* the strength taken from the wrong field of the cache
StepStrengthFromRadius == Abs(cache.radius)
\* flip taken from a positive strength
StepFlipPositive == cache.bstrength > 0
\* line 226 and line 278
StepFlip == cache.bstrength < 0
StepStrength == Abs(cache.bstrength)

\* the radius used whatever the sign of the strength
StepRadiusUnsigned == cache.radius
\* line 227: the radius, negated when the step is flipped
StepRadius == IF StepFlip THEN -cache.radius ELSE cache.radius
\* line 229
StepDisplace == FMul(StepRadius, PlaneDisplaceFactor + SCULPT_brush_plane_offset_get)

\* The locals of do_clay_strips_brush that the jobs capture.
StepLocals ==
  LET flip == StepFlip
      radius == StepRadius
      displace == StepDisplace
      bp == calc_brush_plane(pbvhType, positions, node_mask)
      plane_normal == SCULPT_tilt_apply_to_normal(bp.normal)
      area_position == VAdd(bp.position, VScale(VScale(plane_normal, cache.scale), displace))
      area_normal == IF brush.sculpt_plane # "AREA" \/ brush.original_normal
                     THEN calc_area_normal(pbvhType, node_mask)
                     ELSE plane_normal
      area_position_displaced ==
        VAdd(area_position, VScale(VScale(area_normal, -radius), CubeDisplaceFactor))
      x0 == Cross(area_normal, cache.grab_delta_symm)
      y0 == Cross(area_normal, x0)
      \* math::normalize(mat), then mat * scale, tip_scale_x and the Z scale
      x1 == VScale(Normalize(x0), cache.radius)
      y1 == VScale(VScale(Normalize(y0), cache.radius), brush.tip_scale_x)
      z1 == VScale(VScale(Normalize(area_normal), cache.radius), CubeZScale)
  IN [flip |-> flip,
      strength |-> StepStrength,
      plane |-> plane_from_point_normal(area_position, plane_normal),
      \* the inverse of this matrix is what transform_point applies
      mat |-> [x_axis |-> x1, y_axis |-> y1, z_axis |-> z1,
               location |-> area_position_displaced]]

NoStep == [flip |-> FALSE, strength |-> 0,
           plane |-> [normal |-> Zero3, d |-> 0],
           mat |-> [x_axis |-> Zero3, y_axis |-> Zero3, z_axis |-> Zero3, location |-> Zero3]]

\* one LocalData shared by every thread
tls_local_shared(t) == 1
\* the instance handed out moves on with every completed job
tls_local_rotating(t) == ((t + Cardinality(finished)) % MaxThreads) + 1
\* all_tls.local(): the calling thread's instance
tls_local(t) == t
\* the loop taken as over once the last index is handed out
ParallelDoneNoJoin == pending = {}
\* the loop over only when every worker of the pool has run a job
ParallelDoneEveryWorker ==
  /\ pending = {}
  /\ \A t \in Threads : job[t].at = "idle"
  /\ \A t \in 1..nthreads : obtained[t] # {}
\* node_mask.foreach_index has returned: no index left, no job running
ParallelDone == pending = {} /\ \A t \in Threads : job[t].at = "idle"

\* a node without elements ends the loop
RemainingAfterBreak(n) == IF NodeElements(pbvhType, n) = <<>> THEN {} ELSE pending \ {n}
\* foreach_index: an index handed to a thread leaves the work list, the others stay
RemainingAfter(n) == pending \ {n}

IdleJob == [node |-> 0, at |-> "idle", tls |-> 0]

\* the locals computed anew from the positions of the moment
JobLocalsRecomputed == StepLocals
\* what a job reads of the step: mat, plane, strength and flip, captured by
\* reference by the lambda and passed to the adapter as const
JobLocals == step

\* every node of the tree handed to the loop
DispatchedAllNodes == Nodes
\* node_mask.foreach_index: the indices the loop hands out
DispatchedIndices == node_mask

\* the translations written to the elements of the node after n
ScatterElementsOfNext(type, n) == NodeElements(type, (n % NumNodes) + 1)
\* the elements the last statement of the adapter writes for node n:
\* position_data.deform(translations, verts), apply_translations(translations,
\* grids, subdiv_ccg), apply_translations(translations, verts)
ScatterElements(type, n) == NodeElements(type, n)
\* the bounds written for node n and for the node after it
BoundsTargetsWithNext(n) == {n, (n % NumNodes) + 1}
\* the nodes whose bounds update_node_bounds_*(..., nodes[i]) writes for i = n
BoundsTargets(n) == {n}

\* ------------------------------------------------------------ layout
\* The surface: elements spread along one lateral axis, at varying heights
\* along the surface normal.
Lat(v) == (2 * v - 1 - NumVerts) * 50
Height(v) == ((v * 50) % 120) - 60
InitialPosition(normal, v) ==
  IF normal[1] # 0 THEN <<Height(v), 0, Lat(v)>> ELSE <<Lat(v), 0, Height(v)>>

\* C: the sets the step's inputs are drawn from.
InitWith(C) ==
  /\ pbvhType \in C.types
  /\ node_mask \in C.masks
  /\ nthreads \in C.threads
  /\ \E g \in C.grabs, b \in C.strengths, h \in C.hardness, mc \in C.mirror_clips :
       \E rd \in C.radii, sc \in C.scales :
         cache = [grab_delta_symm |-> g, bstrength |-> b, radius |-> rd,
                  hardness |-> h, scale |-> sc, view_normal_symm |-> UnitAxis(3),
                  mirror_clip |-> mc]
  /\ \E cp \in C.curves, tr \in C.trims, ff \in C.frontface, off \in C.offsets :
       brush = [curve_preset |-> cp, plane_trim_on |-> tr # 0, plane_trim |-> tr,
                tip_scale_x |-> One, plane_offset |-> off, frontface |-> ff,
                sculpt_plane |-> "AREA", original_normal |-> FALSE]
  /\ \E l \in C.locks : sd = [lock |-> l]
  /\ \E nr \in C.normals : ss = [normal |-> nr, region_clip |-> "none"]
  /\ hide_vert \in C.hides
  /\ mask \in C.vmasks
  /\ automask \in C.automasks
  /\ texture \in C.textures
  /\ positions = [v \in Verts |-> InitialPosition(ss.normal, v)]
  /\ pos0 = positions
  /\ bounds = [n \in Nodes |-> update_node_bounds(pbvhType, positions, n)]
  /\ bounds0 = bounds
  /\ parent_bounds = flush_bounds_to_parents(bounds)
  /\ pc = "Idle"
  /\ step = NoStep
  /\ pending = {}
  /\ finished = {}
  /\ job = [t \in Threads |-> IdleJob]
  /\ all_tls = [t \in Threads |-> EmptyLocalData]
  /\ tls_created = {}
  /\ writes = [n \in Nodes |-> {}]
  /\ runs = [n \in Nodes |-> 0]
  /\ obtained = [t \in Threads |-> {}]
  /\ bounds_writes = [n \in Nodes |-> {}]
  /\ tag_count = 0
  /\ flush_count = 0

\* ------------------------------------------------------------ actions
\* lines 221-223: the zero drag delta returns at once
StepDegenerate ==
  /\ pc = "Idle"
  /\ DegenerateStroke
  /\ pc' = "Returned"
  /\ UNCHANGED <<config, positions, bounds, parent_bounds, step, pending, finished, job,
                 all_tls, tls_created, writes, runs, obtained, bounds_writes, tag_count, flush_count>>

\* lines 225-286: the locals are computed, the parallel loop starts
StepSetup ==
  /\ pc = "Idle"
  /\ ~DegenerateStroke
  /\ step' = StepLocals
  /\ pending' = DispatchedIndices
  /\ pc' = "Stepping"
  /\ UNCHANGED <<config, positions, bounds, parent_bounds, finished, job, all_tls,
                 tls_created, writes, runs, obtained, bounds_writes, tag_count, flush_count>>

\* a thread takes an index of the mask, obtains its LocalData (line 287) and
\* runs the adapter up to the scatter
JobCalc(t, n) ==
  /\ pc = "Stepping"
  /\ t <= nthreads
  /\ job[t].at = "idle"
  /\ n \in pending
  /\ LET k == tls_local(t)
     IN /\ all_tls' = [all_tls EXCEPT
                          ![k] = calc_node(pbvhType, hide_vert, positions, JobLocals, n,
                                           all_tls[k])]
        /\ tls_created' = tls_created \cup {k}
        /\ obtained' = [obtained EXCEPT ![t] = @ \cup {k}]
        /\ job' = [job EXCEPT ![t] = [node |-> n, at |-> "scatter", tls |-> k]]
  /\ pending' = RemainingAfter(n)
  /\ runs' = [runs EXCEPT ![n] = @ + 1]
  /\ UNCHANGED <<config, positions, bounds, parent_bounds, pc, step, finished, writes,
                 bounds_writes, tag_count, flush_count>>

\* the adapter's last statement: the translations are written to the positions
JobScatter(t) ==
  /\ job[t].at = "scatter"
  /\ LET n == job[t].node
         idx == ScatterElements(pbvhType, n)
         tr == all_tls[job[t].tls].translations
     IN /\ positions' = apply_translations(positions, idx, tr)
        /\ writes' = [writes EXCEPT ![n] = @ \cup ScatterTargets(idx, tr)]
  /\ job' = [job EXCEPT ![t].at = "bounds"]
  /\ UNCHANGED <<config, bounds, parent_bounds, pc, step, pending, finished, all_tls,
                 tls_created, runs, obtained, bounds_writes, tag_count, flush_count>>

\* update_node_bounds_* of the node, the end of the job
JobBounds(t) ==
  /\ job[t].at = "bounds"
  /\ bounds' = [m \in Nodes |-> IF m \in BoundsTargets(job[t].node)
                                 THEN update_node_bounds(pbvhType, positions, m)
                                 ELSE bounds[m]]
  /\ bounds_writes' = [bounds_writes EXCEPT ![job[t].node] = @ \cup BoundsTargets(job[t].node)]
  /\ finished' = finished \cup {job[t].node}
  /\ job' = [job EXCEPT ![t] = IdleJob]
  /\ UNCHANGED <<config, positions, parent_bounds, pc, step, pending, all_tls, tls_created,
                 writes, runs, obtained, tag_count, flush_count>>

\* line 325, after the parallel loop has returned
TagPositionsChanged ==
  /\ pc = "Stepping"
  /\ ParallelDone
  /\ tag_count' = tag_count + 1
  /\ pc' = "Tagged"
  /\ UNCHANGED <<config, positions, bounds, parent_bounds, step, pending, finished, job,
                 all_tls, tls_created, writes, runs, obtained, bounds_writes, flush_count>>

\* line 326, then the step returns
FlushBounds ==
  /\ pc = "Tagged"
  /\ parent_bounds' = flush_bounds_to_parents(bounds)
  /\ flush_count' = flush_count + 1
  /\ pc' = "Returned"
  /\ UNCHANGED <<config, positions, bounds, step, pending, finished, job, all_tls,
                 tls_created, writes, runs, obtained, bounds_writes, tag_count>>

Next ==
  \/ StepDegenerate
  \/ StepSetup
  \/ \E t \in Threads, n \in Nodes : JobCalc(t, n)
  \/ \E t \in Threads : JobScatter(t)
  \/ \E t \in Threads : JobBounds(t)
  \/ TagPositionsChanged
  \/ FlushBounds

\* --------------------------------------------------- input families
NoMask == [v \in Verts |-> 0]
Trivial == [v \in Verts |-> One]
BaseInputs ==
  [types |-> PbvhTypes, masks |-> {Nodes}, threads |-> {1},
   grabs |-> {Zero3, <<0, 30, 0>>}, strengths |-> {One}, hardness |-> {0},
   mirror_clips |-> {{}}, curves |-> {"LIN"}, trims |-> {0}, frontface |-> {FALSE},
   locks |-> {{}}, normals |-> {UnitAxis(3)}, hides |-> {{}}, vmasks |-> {NoMask},
   automasks |-> {Trivial}, textures |-> {Trivial},
   radii |-> {2 * One}, scales |-> {One}, offsets |-> {0}]

\* The parallel phase: every mask of a family, both signs of the strength,
\* the jobs interleaved over all threads.
Init ==
  InitWith([BaseInputs EXCEPT
              !.masks = {{}, Nodes, Nodes \ {1}, {NumNodes}, {1}},
              !.threads = {MaxThreads},
              !.strengths = {One, -One},
              !.normals = {UnitAxis(1), UnitAxis(3)}])
Spec == Init /\ [][Next]_vars

\* Pipeline families: one thread, the jobs in any order.
\* Strength, hardness, curve, hide/mask and trim limit vary.
InitFactors ==
  InitWith([BaseInputs EXCEPT
              !.masks = {Nodes, {1}},
              !.strengths = {0, One, 2 * One, -One},
              !.hardness = {0, One \div 2},
              !.curves = {"LIN", "CONSTANT"},
              !.trims = {0, 70},
              !.hides = {{}, {3}, {1, 4}},
              !.vmasks = {NoMask, [v \in Verts |-> IF v = 4 THEN One \div 2
                                                    ELSE IF v = 5 THEN One ELSE 0]}])
SpecFactors == InitFactors /\ [][Next]_vars

\* Hidden and masked elements vary.
InitMask ==
  InitWith([BaseInputs EXCEPT
              !.masks = {Nodes, {1}},
              !.strengths = {One, -One},
              !.hides = {{}, {3}, {1, 4}},
              !.vmasks = {NoMask, [v \in Verts |-> IF v = 4 THEN One \div 2
                                                    ELSE IF v = 5 THEN One ELSE 0]}])
SpecMask == InitMask /\ [][Next]_vars

\* Axis locks and mirror clip vary, with the normal along X or Z.
InitClip ==
  InitWith([BaseInputs EXCEPT
              !.masks = {Nodes, {1}},
              !.strengths = {One, 2 * One, -One},
              !.normals = {UnitAxis(1), UnitAxis(3)},
              !.locks = {{}, {1}, {3}, {1, 2}},
              !.mirror_clips = {{}, {1}, {1, 3}}])
SpecClip == InitClip /\ [][Next]_vars

\* The factor stages under every weight: strength below and above 1,
\* hardness, front-face culling, paint mask, automasking and texture weights
\* between 0 and 1, a trim limit.
RangeMask == [v \in Verts |-> IF v = 4 THEN One \div 2 ELSE IF v = 1 THEN One ELSE 0]
InitRange ==
  InitWith([BaseInputs EXCEPT
              !.strengths = {One \div 2, 2 * One, -One},
              !.hardness = {0, One \div 2},
              !.curves = {"SHARP"},
              !.trims = {0, 70},
              !.frontface = {FALSE, TRUE},
              !.hides = {{2}},
              !.vmasks = {RangeMask},
              !.automasks = {Trivial, [v \in Verts |-> IF v % 2 = 0 THEN One \div 2 ELSE One]},
              !.textures = {Trivial, [v \in Verts |-> IF v % 3 = 1 THEN One \div 4 ELSE One]}])
SpecRange == InitRange /\ [][Next]_vars

\* A trim limit together with mirror clip and an axis lock, the normal along
\* X or Z.
InitTrimClip ==
  InitWith([BaseInputs EXCEPT
              !.masks = {Nodes, {1}},
              !.strengths = {One, -One},
              !.normals = {UnitAxis(1), UnitAxis(3)},
              !.trims = {0, 30, 70},
              !.locks = {{}, {3}},
              !.mirror_clips = {{}, {1}}])
SpecTrimClip == InitTrimClip /\ [][Next]_vars

\* The parallel phase on one surface: every mask of a family, the jobs
\* interleaved over all threads, with and without hidden elements.
InitBounds ==
  InitWith([BaseInputs EXCEPT
              !.masks = {{}, Nodes, Nodes \ {1}, {NumNodes}, {1}},
              !.threads = {MaxThreads},
              !.strengths = {One, 2 * One, -One},
              !.hides = {{}, {3}}])
SpecBounds == InitBounds /\ [][Next]_vars

\* The reference plane: radius, object scale, plane offset and the sign of the
\* strength vary, the normal along X or Z.
InitPlane ==
  InitWith([BaseInputs EXCEPT
              !.masks = {Nodes, {1}},
              !.strengths = {One, -One},
              !.normals = {UnitAxis(1), UnitAxis(3)},
              !.radii = {One, 2 * One},
              !.scales = {One, 2 * One},
              !.offsets = {0, 10, -10}])
SpecPlane == InitPlane /\ [][Next]_vars

\* Scheduling.  Each condition is stated on the control part of the steps it
\* is about, which can change exactly when the step can be taken:
\* the invoking thread runs on (the guard, the setup, the tag and the flush
\* are the steps that change pc);
MainThreadStep ==
  /\ pc = "Idle" \/ pc = "Tagged" \/ (pc = "Stepping" /\ ParallelDone)
  /\ pc' \in {"Stepping", "Tagged", "Returned"}
  /\ pc' # pc
\* an idle worker of the pool takes an index while the loop has one left
\* (the calls of the lambda are the steps that shrink the work list);
DispatchStep ==
  /\ pc = "Stepping"
  /\ \E t \in 1..nthreads : job[t].at = "idle"
  /\ \E n \in pending : pending' = pending \ {n}
\* a job in work on thread t gets its next statement, the scatter and then
\* the bounds update (the steps that move the job of t on).
JobStep(t) ==
  /\ job[t].at \in {"scatter", "bounds"}
  /\ job' = [job EXCEPT ![t] = IF job[t].at = "scatter" THEN [@ EXCEPT !.at = "bounds"]
                               ELSE IdleJob]
WorkerFairness(t) == WF_job(JobStep(t))
Fairness ==
  /\ WF_pc(MainThreadStep)
  /\ WF_pending(DispatchStep)
\* The parallel phase with the invoking thread and the dispatch of the loop
\* scheduled fairly; the scheduling of each worker is a hypothesis of what is
\* stated about it.
InitFair ==
  InitWith([BaseInputs EXCEPT
              !.masks = {{}, Nodes, Nodes \ {1}, {NumNodes}, {1}},
              !.threads = {MaxThreads},
              !.strengths = {One, -One}])
SpecFair == InitFair /\ [][Next]_vars /\ Fairness

\* ------------------------------------------------------------ claims
Stepped == pc # "Idle" /\ ~is_zero(cache.grab_delta_symm)
Moved == {v \in Verts : positions[v] # pos0[v]}

\* The step run on one thread, the mask's nodes in the order of q, from
\* positions P and bounds B with the LocalData tls.
RECURSIVE SequentialRun(_, _, _, _)
SequentialRun(P, B, tls, q) ==
  IF q = <<>> THEN [positions |-> P, bounds |-> B]
  ELSE LET n == Head(q)
           r == calc_node(pbvhType, hide_vert, P, step, n, tls)
           P2 == apply_translations(P, NodeElements(pbvhType, n), r.translations)
       IN SequentialRun(P2, [B EXCEPT ![n] = update_node_bounds(pbvhType, P2, n)], r, Tail(q))

\* C1 Order-independence: whatever the interleaving of the per-node jobs over
\* the threads, a step that has returned left the positions and the node
\* bounds that the jobs run one after another in ascending node order leave.
C1_OrderIndependence ==
  (pc = "Returned" /\ Stepped) =>
    LET r == SequentialRun(pos0, bounds0, EmptyLocalData, SetToSeq(node_mask))
    IN positions = r.positions /\ bounds = r.bounds
\* a returned step in which both threads ran jobs and elements moved
C1_Witness ==
  /\ pc = "Returned" /\ Stepped
  /\ tls_created = 1..2
  /\ Cardinality(node_mask) >= 2
  /\ Moved # {}
  /\ bounds # bounds0

\* C2 Degenerate guard: with a zero drag delta the step returns with nothing
\* dispatched and nothing changed: positions, node bounds, parent bounds, no
\* job, no LocalData, no tag, no flush.
C2_DegenerateGuard ==
  is_zero(cache.grab_delta_symm) =>
    /\ pc \in {"Idle", "Returned"}
    /\ positions = pos0 /\ bounds = bounds0
    /\ parent_bounds = flush_bounds_to_parents(bounds0)
    /\ pending = {} /\ finished = {} /\ tls_created = {}
    /\ \A t \in Threads : job[t].at = "idle"
    /\ tag_count = 0 /\ flush_count = 0
\* the step has returned on a zero drag delta although the mask holds nodes
C2_Witness ==
  /\ pc = "Returned"
  /\ is_zero(cache.grab_delta_symm)
  /\ \E n \in node_mask : NodeElements(pbvhType, n) # <<>>

\* C3 Zero strength: with brush strength 0 every factor a job leaves is 0,
\* every translation it scatters is the zero vector, and no position changes.
C3_ZeroStrength ==
  cache.bstrength = 0 =>
    /\ positions = pos0
    /\ \A k \in tls_created :
         /\ \A i \in DOMAIN all_tls[k].factors : all_tls[k].factors[i] = 0
         /\ \A i \in DOMAIN all_tls[k].translations : all_tls[k].translations[i] = Zero3
\* a returned step of strength 0 over a node that moves under strength 1
C3_Witness ==
  /\ pc = "Returned" /\ Stepped
  /\ cache.bstrength = 0
  /\ \E n \in finished :
       \E i \in DOMAIN NodeElements(pbvhType, n) :
         calc_node(pbvhType, hide_vert, pos0, [step EXCEPT !.strength = One], n,
                   EmptyLocalData).translations[i] # Zero3

\* C4 Representation equivalence: for every node, the translations of
\* calc_faces, calc_grids and calc_bmesh on the same elements, positions,
\* hide/mask state and step locals are equal.
C4_RepresentationEquivalence ==
  Stepped =>
    \A n \in Nodes :
      LET tf == calc_faces(hide_vert, pos0, step, n, EmptyLocalData).translations
          tg == calc_grids(hide_vert, pos0, step, n, EmptyLocalData).translations
          tb == calc_bmesh(hide_vert, pos0, step, n, EmptyLocalData).translations
      IN tf = tg /\ tg = tb

\* The elements that move in a step like this one but with hidden elements H.
MovedWith(H) ==
  UNION {LET idx == NodeElements(pbvhType, n)
             tr == calc_node(pbvhType, H, pos0, step, n, EmptyLocalData).translations
         IN {idx[i] : i \in {j \in DOMAIN idx : tr[j] # Zero3}} : n \in node_mask}
\* the sets of at most k elements of S
RECURSIVE UpTo(_, _)
UpTo(S, k) == IF k = 0 THEN {{}}
              ELSE UpTo(S, k - 1) \cup {X \cup {v} : X \in UpTo(S, k - 1), v \in S}
\* the parallel loop is about to start: the locals are set, no job has begun
JobsReady == pc = "Stepping" /\ pending = node_mask /\ finished = {}
\* C5 Mask monotonicity: a step that differs from this one only in hiding
\* more elements (up to MaxExtraHidden more, or all of them) moves a subset
\* of the elements this one moves. The elements a returned step has moved are
\* those its adapters move on the positions of its start; the comparison with
\* the larger hidden sets is made on the locals the step has set up.
C5_MaskMonotonicity ==
  /\ (pc = "Returned" /\ Stepped) => Moved = MovedWith(hide_vert)
  /\ JobsReady =>
       LET M == MovedWith(hide_vert)
       IN \A X \in UpTo(Verts, MaxExtraHidden) \cup {Verts} :
            MovedWith(hide_vert \cup X) \subseteq M
\* a returned step that moved an element which hiding would have kept still
C5_Witness ==
  /\ pc = "Returned" /\ Stepped
  /\ hide_vert # {}
  /\ \E v \in Moved : MovedWith(hide_vert \cup {v}) # Moved

\* the LocalData of node n after trim and scaling, before clip and lock
ScaledOf(n) == calc_node_scaled(pbvhType, hide_vert, pos0, step, n, EmptyLocalData)
\* C6 as stated: with a trim limit L, no translation is longer than L after
\* the trim filter and the scaling by the factors.
C6_PlaneClampAsStated ==
  (Stepped /\ brush.plane_trim_on) =>
    \A n \in node_mask :
      LET tr == ScaledOf(n).translations
      IN \A i \in DOMAIN tr : LengthSquared(tr[i]) <= brush.plane_trim * brush.plane_trim
\* C6 Plane clamp, amended: with a trim limit L, after the trim filter and the
\* scaling every translation is at most factor * L long, the factor being at
\* most the strength: at most L when the strength is at most 1.
C6_PlaneClamp ==
  (Stepped /\ brush.plane_trim_on) =>
    \A n \in node_mask :
      LET r == ScaledOf(n)
          L == brush.plane_trim
      IN \A i \in DOMAIN r.translations :
           /\ 0 <= r.factors[i] /\ r.factors[i] <= step.strength
           /\ LengthSquared(r.translations[i]) * One * One
                <= (r.factors[i] * L) * (r.factors[i] * L)
           /\ step.strength <= One => LengthSquared(r.translations[i]) <= L * L
\* a step with a trim limit where the filter stopped one element and let
\* another, farther than half the limit from the plane, move
C6_Witness ==
  /\ pc = "Returned" /\ Stepped /\ brush.plane_trim_on
  /\ \E n \in finished :
       LET r == ScaledOf(n)
           L == brush.plane_trim
           t1 == calc_translations_to_plane(pos0, NodeElements(pbvhType, n), step.plane,
                                            r.translations)
       IN \E i, j \in DOMAIN r.translations :
            /\ 4 * LengthSquared(r.translations[i]) > L * L
            /\ r.factors[j] = 0 /\ LengthSquared(t1[j]) > L * L

\* C7 Axis lock: on every locked axis every element keeps its coordinate.
C7_AxisLock ==
  \A a \in sd.lock : \A v \in Verts : positions[v][a] = pos0[v][a]
\* a returned step with X locked in which an element was to move along X
C7_Witness ==
  /\ pc = "Returned" /\ Stepped
  /\ 1 \in sd.lock
  /\ \E n \in finished :
       \E i \in DOMAIN ScaledOf(n).translations : ScaledOf(n).translations[i][1] # 0

\* C8 Mirror clip: with the boundary x = 0 active no element is on the other
\* side of it than it was when the step began, and the translations a job is
\* about to scatter are what clip_and_lock_translations leaves unchanged.
C8_MirrorClip ==
  1 \in cache.mirror_clip =>
    /\ \A v \in Verts : /\ ~(pos0[v][1] > 0 /\ positions[v][1] < 0)
                        /\ ~(pos0[v][1] < 0 /\ positions[v][1] > 0)
    /\ \A t \in Threads :
         job[t].at = "scatter" =>
           LET idx == NodeElements(pbvhType, job[t].node)
               tr == all_tls[job[t].tls].translations
           IN clip_and_lock_translations(sd.lock, cache.mirror_clip, positions, idx, tr) = tr
\* a returned step with the boundary active in which an element was to cross
C8_Witness ==
  /\ pc = "Returned" /\ Stepped
  /\ 1 \in cache.mirror_clip /\ 1 \notin sd.lock
  /\ \E n \in finished :
       \E i \in DOMAIN ScaledOf(n).translations :
         LET x == pos0[NodeElements(pbvhType, n)[i]][1]
         IN x < 0 /\ x + ScaledOf(n).translations[i][1] > 0

\* C9 Empty node: the job of a node without elements writes no position and
\* leaves the node's (empty) bounds; the step still runs the job of every
\* node of the mask, and each of them writes exactly its own elements.
C9_EmptyNode ==
  /\ \A n \in Nodes :
       NodeElements(pbvhType, n) = <<>> =>
         writes[n] = {} /\ bounds[n] = negative_bounds
  /\ (pc = "Returned" /\ Stepped) =>
       /\ finished = node_mask
       /\ \A n \in node_mask : writes[n] = SeqRange(NodeElements(pbvhType, n))
\* a returned step whose mask holds the empty node and a node that moved
C9_Witness ==
  /\ pc = "Returned" /\ Stepped
  /\ NumNodes \in node_mask /\ NumNodes \in finished
  /\ NodeElements(pbvhType, NumNodes) = <<>>
  /\ Moved # {}

\* C10 Barrier: the dirty tag and the bounds flush happen at most once, the
\* flush after the tag, both only when every job of the mask has completed
\* and no job is running; a step that ran has done each exactly once.
C10_Barrier ==
  /\ tag_count <= 1 /\ flush_count <= tag_count
  /\ tag_count > 0 =>
       /\ pending = {} /\ finished = node_mask
       /\ \A t \in Threads : job[t].at = "idle"
  /\ (pc = "Returned" /\ Stepped) => tag_count = 1 /\ flush_count = 1
  /\ flush_count = 1 => parent_bounds = flush_bounds_to_parents(bounds)
\* the flush done after jobs of two threads
C10_Witness ==
  /\ pc = "Returned" /\ flush_count = 1
  /\ tls_created = 1..2
  /\ Cardinality(finished) >= 2

\* the threads whose running job is for node n
Workers(n) == {t \in Threads : job[t].at # "idle" /\ job[t].node = n}
\* C11 All-or-nothing dispatch: no node has more than one job, a node outside
\* the mask has none, a node's job is either running on one thread or
\* completed; a step that returns after the guard has run and completed the
\* job of every node of the mask, and only the zero drag delta lets the step
\* get past the loop with a node of the mask unprocessed.
C11_AllOrNothingDispatch ==
  /\ \A n \in Nodes :
       /\ runs[n] <= 1
       /\ n \notin node_mask => runs[n] = 0
       /\ Cardinality(Workers(n)) + (IF n \in finished THEN 1 ELSE 0) = runs[n]
  /\ (pc = "Returned" /\ Stepped) =>
       \A n \in node_mask : runs[n] = 1 /\ n \in finished
  /\ (pc \in {"Tagged", "Returned"} /\ \E n \in node_mask : runs[n] = 0 \/ n \notin finished) =>
       /\ DegenerateStroke
       /\ \A n \in Nodes : runs[n] = 0
\* a returned step over a mask of several nodes that leaves a node out, the
\* jobs run by both threads
C11_Witness ==
  /\ pc = "Returned" /\ Stepped
  /\ Cardinality(node_mask) >= 2 /\ node_mask # Nodes
  /\ \A t \in 1..2 : obtained[t] # {}
  /\ \A n \in Nodes : runs[n] = (IF n \in node_mask THEN 1 ELSE 0)

\* the scratch buffers of LocalData d have the length of node n's elements
\* (for grids: of the gathered grid-cell positions)
ScratchSized(d, n) ==
  LET count == Len(NodeElements(pbvhType, n))
  IN /\ Len(d.factors) = count
     /\ Len(d.distances) = count
     /\ Len(d.translations) = count
     /\ pbvhType # "Mesh" => Len(d.positions) = count
\* C12 Scratch length: the buffers of a job that has run its adapter and is
\* about to scatter have the length of its node's element count, whatever
\* node the thread's LocalData served before.
C12_ScratchLength ==
  \A t \in Threads : job[t].at = "scatter" => ScratchSized(all_tls[job[t].tls], job[t].node)
\* a job about to scatter whose LocalData, the only one created, has served
\* a larger node before
C12_Witness ==
  \E t \in Threads :
    /\ job[t].at = "scatter"
    /\ tls_created = {job[t].tls}
    /\ NodeElements(pbvhType, job[t].node) # <<>>
    /\ \E m \in finished :
         Len(NodeElements(pbvhType, m)) > Len(NodeElements(pbvhType, job[t].node))

\* the threads with a job in work
Busy == {t \in Threads : job[t].at # "idle"}
\* C13 Thread-local scratch: two jobs in work never use the same LocalData;
\* a thread obtains at most one instance in a step, none before its first
\* job, and every job of the thread uses that instance; no two threads
\* obtain the same instance, and only obtained instances exist.
C13_ThreadLocalScratch ==
  /\ \A t1, t2 \in Busy : t1 # t2 => job[t1].tls # job[t2].tls
  /\ \A t \in Threads :
       /\ Cardinality(obtained[t]) <= 1
       /\ t \in Busy => obtained[t] = {job[t].tls}
       /\ (\A n \in Nodes : runs[n] = 0) => obtained[t] = {}
  /\ \A t1, t2 \in Threads : t1 # t2 => obtained[t1] \cap obtained[t2] = {}
  /\ tls_created = UNION {obtained[t] : t \in Threads}
\* two jobs in work on two threads, one of them the second job of its thread
C13_Witness ==
  /\ pc = "Stepping" /\ node_mask = Nodes /\ pending = {}
  /\ Cardinality(Busy) = 2
  /\ Cardinality(finished) = NumNodes - 2
  /\ \A t \in Busy : obtained[t] = {job[t].tls}

\* the position elements the job of node n writes
JobWrites(n) == SeqRange(NodeElements(pbvhType, n))

\* the calls that only keep or zero a factor, and those that multiply it by
\* a weight between 0 and 1
FilterStages ==
  {"filter_region_clip_factors", "calc_front_face", "filter_distances_with_radius",
   "filter_below_plane_factors", "filter_above_plane_factors",
   "filter_plane_trim_limit_factors"}
WeightStages ==
  {"BKE_brush_calc_curve_factors", "auto_mask_calc_factors", "calc_brush_texture_factors"}
\* the position of a call in a trace, 0 if it did not run
StageAt(tr, name) ==
  IF \E k \in DOMAIN tr : tr[k].stage = name
  THEN CHOOSE k \in DOMAIN tr : tr[k].stage = name
  ELSE 0
\* the trace of the job thread t is about to scatter
TraceOf(t) == NodeTrace(pbvhType, hide_vert, positions, step, job[t].node, EmptyLocalData)
\* C15 Factor range: for a job about to scatter, with strength = |bstrength|
\* and automasking and texture weights in 0..1: from scale_factors on, every
\* factor lies in [0, strength]; a filter stage leaves each factor as it was
\* or 0, a weight stage leaves it between 0 and what it was; the trace ends
\* in the LocalData the job holds.
C15_FactorRange ==
  \A t \in Threads :
    job[t].at = "scatter" =>
      LET tr == TraceOf(t)
          strength == Abs(cache.bstrength)
      IN /\ tr[Len(tr)].data = all_tls[job[t].tls]
         /\ StageAt(tr, "scale_factors") > 0
         /\ \A k \in DOMAIN tr : \A i \in DOMAIN tr[k].data.factors :
              LET f == tr[k].data.factors[i]
              IN /\ k >= StageAt(tr, "scale_factors") => (0 <= f /\ f <= strength)
                 /\ tr[k].stage \in FilterStages => f \in {0, tr[k - 1].data.factors[i]}
                 /\ tr[k].stage \in WeightStages =>
                      (0 <= f /\ f <= tr[k - 1].data.factors[i])
\* a job about to scatter, of strength above 1, that holds a factor above 1,
\* a factor strictly between 0 and the strength and a factor a filter zeroed
\* after the scaling
C15_Witness ==
  \E t \in Threads :
    /\ job[t].at = "scatter"
    /\ Abs(cache.bstrength) > One
    /\ LET f == all_tls[job[t].tls].factors
           tr == TraceOf(t)
       IN /\ \E i \in DOMAIN f : f[i] > One
          /\ \E i \in DOMAIN f : 0 < f[i] /\ f[i] < Abs(cache.bstrength)
          /\ \E i \in DOMAIN f :
               f[i] = 0 /\ tr[StageAt(tr, "scale_factors")].data.factors[i] > 0

\* a step of the parallel phase or after it leaves the cache, the settings and
\* the locals as they are
SnapshotKept ==
  pc \in {"Stepping", "Tagged"} =>
    (cache' = cache /\ brush' = brush /\ sd' = sd /\ ss' = ss /\ step' = step)
\* C16 Read-only snapshot: the locals (plane, mat, strength, flip) are those
\* computed from the state the step was invoked in, before any job has
\* begun; every job about to scatter has computed with exactly these; and
\* from the dispatch to the return no step changes the stroke cache, the
\* brush settings or the locals.
C16_ReadOnlySnapshot ==
  /\ [](/\ (pc = "Stepping" /\ \A n \in Nodes : runs[n] = 0) =>
             (positions = pos0 /\ step = StepLocals)
        /\ \A t \in Threads :
             job[t].at = "scatter" =>
               all_tls[job[t].tls] = calc_node(pbvhType, hide_vert, positions, step,
                                               job[t].node, EmptyLocalData))
  /\ [][SnapshotKept]_vars
\* a job about to scatter when another job has moved elements, so that the
\* locals computed now would differ from those of the step
C16_Witness ==
  /\ \E t \in Threads : job[t].at = "scatter"
  /\ finished # {}
  /\ positions # pos0
  /\ StepLocals # step

\* the elements hidden or fully masked when the step is invoked
Protected == {v \in Verts : v \in hide_vert \/ mask[v] = One}
\* C17 Hidden or fully masked vertices never move: such an element keeps its
\* position throughout the step, and in the job of its node its factor is 0
\* after fill_factor_from_hide_and_mask, the first call, and after every later
\* call, and its translation is zero, in each of the three representations.
C17_ProtectedNeverMove ==
  /\ \A v \in Protected : positions[v] = pos0[v]
  /\ \A t \in Threads :
       job[t].at = "scatter" =>
         LET tr == TraceOf(t)
             idx == NodeElements(pbvhType, job[t].node)
             d == all_tls[job[t].tls]
         IN \A i \in DOMAIN idx :
              idx[i] \in Protected =>
                /\ tr[1].stage = "fill_factor_from_hide_and_mask"
                /\ \A k \in DOMAIN tr : tr[k].data.factors[i] = 0
                /\ d.factors[i] = 0 /\ d.translations[i] = Zero3
\* a returned step over a fully masked element and a hidden element, the
\* latter moving when nothing is hidden
C17_Witness ==
  /\ pc = "Returned" /\ Stepped
  /\ \E n, m \in finished :
       \E i \in DOMAIN NodeElements(pbvhType, n), j \in DOMAIN NodeElements(pbvhType, m) :
         /\ NodeElements(pbvhType, n)[i] \in hide_vert
         /\ mask[NodeElements(pbvhType, m)[j]] = One
         /\ NodeElements(pbvhType, m)[j] \notin hide_vert
         /\ calc_node(pbvhType, {}, pos0, step, n, EmptyLocalData).translations[i] # Zero3
         /\ Moved # {}

\* the largest magnitude of the brush-local coordinates of point p
CubeExtent(p) ==
  LET l == transform_point(step.mat, p)
  IN Max(Abs(l[1]), Max(Abs(l[2]), Abs(l[3])))
\* the elements outside the test volume when the step is invoked
OutsideVolume == {v \in Verts : CubeExtent(pos0[v]) > One}
\* C18 Outside the test volume: an element whose cube distance exceeds 1
\* keeps its position throughout the step; in the job of its node its
\* distance exceeds 1, its factor is 0 after filter_distances_with_radius and
\* after every later call, and its translation is zero.
C18_OutsideTestVolume ==
  /\ Stepped => \A v \in OutsideVolume : positions[v] = pos0[v]
  /\ \A t \in Threads :
       job[t].at = "scatter" =>
         LET tr == TraceOf(t)
             idx == NodeElements(pbvhType, job[t].node)
             kd == StageAt(tr, "calc_brush_cube_distances")
             kr == StageAt(tr, "filter_distances_with_radius")
         IN /\ 0 < kd /\ kd < kr
            /\ \A i \in DOMAIN idx :
                 (idx[i] \in OutsideVolume \/ tr[kd].data.distances[i] > One) =>
                   /\ tr[kd].data.distances[i] > One
                   /\ \A k \in kr..Len(tr) : tr[k].data.factors[i] = 0
                   /\ all_tls[job[t].tls].translations[i] = Zero3
\* a job about to scatter whose node has an element outside the volume, its
\* factor positive until the radius filter, and an element that will move
C18_Witness ==
  \E t \in Threads :
    /\ job[t].at = "scatter"
    /\ LET tr == TraceOf(t)
           idx == NodeElements(pbvhType, job[t].node)
           kr == StageAt(tr, "filter_distances_with_radius")
       IN /\ \E i \in DOMAIN idx :
               /\ idx[i] \in OutsideVolume
               /\ tr[kr - 1].data.factors[i] > 0
               /\ plane_point_side(step.plane, pos0[idx[i]]) # 0
          /\ \E j \in DOMAIN idx : all_tls[job[t].tls].translations[j] # Zero3

\* C19 Hardness remap in every adapter: in the job of every node of every
\* representation the distances the falloff curve reads are the distances
\* the radius filter read, remapped by apply_hardness_to_distances with the
\* cache hardness; where the remap is called, it is called between the two.
C19_HardnessEveryAdapter ==
  \A t \in Threads :
    job[t].at = "scatter" =>
      LET tr == TraceOf(t)
          kr == StageAt(tr, "filter_distances_with_radius")
          kh == StageAt(tr, "apply_hardness_to_distances")
          kc == StageAt(tr, "BKE_brush_calc_curve_factors")
      IN /\ 0 < kr /\ kr < kc
         /\ kh # 0 => (kr < kh /\ kh < kc)
         /\ tr[kc].data.distances =
              apply_hardness_to_distances(One, cache.hardness, tr[kr].data.distances)
         /\ all_tls[job[t].tls].distances =
              apply_hardness_to_distances(One, cache.hardness, tr[kr].data.distances)

\* the factor stages in the order the factor pipeline prescribes
FactorStageOrder ==
  <<"fill_factor_from_hide_and_mask", "filter_region_clip_factors", "calc_front_face",
    "calc_brush_cube_distances", "filter_distances_with_radius",
    "apply_hardness_to_distances", "BKE_brush_calc_curve_factors",
    "auto_mask_calc_factors", "calc_brush_texture_factors", "scale_factors">>
\* the place of a stage in that order, 0 for a call that is not a factor stage
OrderRank(name) ==
  IF \E k \in DOMAIN FactorStageOrder : FactorStageOrder[k] = name
  THEN CHOOSE k \in DOMAIN FactorStageOrder : FactorStageOrder[k] = name
  ELSE 0
\* the factor stages of a sequence of calls follow the prescribed order
InOrder(names) ==
  \A a, b \in DOMAIN names :
    (a < b /\ OrderRank(names[a]) > 0 /\ OrderRank(names[b]) > 0) =>
      OrderRank(names[a]) < OrderRank(names[b])
\* C20 Fixed stage order: in the job of a node, the factor stages that run do
\* so in the order hide/mask, region clip, front face, cube distances,
\* radius filter, hardness, curve, automasking, texture, strength; the calls
\* of each of the three adapters follow that one order, so the adapters
\* agree on the relative order of the stages they share.  The calls in this
\* order give the LocalData the job holds.
C20_FixedStageOrder ==
  /\ pc = "Idle" => \A type \in PbvhTypes : InOrder(calc_node_stages(type))
  /\ \A t \in Threads :
       job[t].at = "scatter" =>
         LET tr == TraceOf(t)
         IN /\ InOrder([k \in DOMAIN tr |-> tr[k].stage])
            /\ tr[Len(tr)].data = all_tls[job[t].tls]
\* a job about to scatter in which all ten factor stages ran (front face on,
\* a mesh node) and an element will move
C20_Witness ==
  \E t \in Threads :
    /\ job[t].at = "scatter"
    /\ \A k \in DOMAIN FactorStageOrder : StageAt(TraceOf(t), FactorStageOrder[k]) > 0
    /\ cache.hardness # 0 /\ brush.frontface
    /\ \E i \in DOMAIN all_tls[job[t].tls].translations :
         all_tls[job[t].tls].translations[i] # Zero3

\* the node's adapter run call by call on the positions of the step's start
StartTrace(n) == NodeTrace(pbvhType, hide_vert, pos0, step, n, EmptyLocalData)
\* element i of node n has a positive factor before the call `name` and 0 after
ZeroedBy(n, name) ==
  LET tr == StartTrace(n)
      k == StageAt(tr, name)
  IN /\ k > 1
     /\ \E i \in DOMAIN tr[k].data.factors :
          tr[k].data.factors[i] = 0 /\ tr[k - 1].data.factors[i] > 0
\* C21 Zero is absorbing: in the job of a node, a factor that is 0 after a
\* call is 0 after every later call, the translation of that element is the
\* zero vector after the scaling and after clip and lock under any set of
\* locked and clipped axes, and the scatter leaves the element where it was.
C21_ZeroAbsorbing ==
  /\ \A t \in Threads :
       job[t].at = "scatter" =>
         \A tr \in {TraceOf(t)}, d \in {all_tls[job[t].tls]},
            idx \in {NodeElements(pbvhType, job[t].node)} :
           /\ tr[Len(tr)].data = d
           /\ \A k \in 2..Len(tr) : \A i \in DOMAIN idx :
                tr[k - 1].data.factors[i] = 0 => tr[k].data.factors[i] = 0
           /\ \A T \in {tr[StageAt(tr, "scale_translations")].data.translations},
                 P \in {StagePositions(pbvhType, positions, job[t].node)} :
                /\ \A i \in DOMAIN idx :
                     d.factors[i] = 0 => (d.translations[i] = Zero3 /\ T[i] = Zero3)
                /\ (\E i \in DOMAIN idx : d.factors[i] = 0) =>
                     \A L \in SUBSET {1, 3}, C \in SUBSET {1, 3} :
                       \A out \in {clip_and_lock_translations(L, C, P, idx, T)} :
                         \A i \in DOMAIN idx : d.factors[i] = 0 => out[i] = Zero3
  /\ (pc = "Returned" /\ Stepped) =>
       \A n \in node_mask :
         LET tr == StartTrace(n)
             idx == NodeElements(pbvhType, n)
         IN \A i \in DOMAIN idx :
              (\E k \in DOMAIN tr : tr[k].data.factors[i] = 0) => positions[idx[i]] = pos0[idx[i]]
\* a returned step in which the hide/mask fill, the front-face test and the
\* trim filter each brought a factor to 0, and an element moved
C21_Witness ==
  /\ pc = "Returned" /\ Stepped
  /\ Moved # {}
  /\ \E n \in finished :
       \E i \in DOMAIN NodeElements(pbvhType, n) : StartTrace(n)[1].data.factors[i] = 0
  /\ \E n \in finished : ZeroedBy(n, "calc_front_face")
  /\ \E n \in finished : ZeroedBy(n, "filter_plane_trim_limit_factors")

\* the side of the reference plane the step's mode keeps still: above it in
\* Add mode, below it when flipped
Disallowed(p) ==
  \/ ~step.flip /\ plane_point_side(step.plane, p) > 0
  \/ step.flip /\ plane_point_side(step.plane, p) < 0
\* C22 Plane-side filter: flip is true exactly when the signed strength is
\* negative; an element strictly above the plane (flip false) or strictly
\* below it (flip true) keeps its position throughout the step, and in the
\* job of its node its factor is 0 and its translation zero; the adapters of
\* the three representations all give such an element factor 0.
C22_PlaneSideFilter ==
  /\ Stepped => (step.flip <=> cache.bstrength < 0)
  /\ Stepped => \A v \in Verts : Disallowed(pos0[v]) => positions[v] = pos0[v]
  /\ \A t \in Threads :
       job[t].at = "scatter" =>
         LET idx == NodeElements(pbvhType, job[t].node)
             d == all_tls[job[t].tls]
         IN \A i \in DOMAIN idx :
              Disallowed(pos0[idx[i]]) => (d.factors[i] = 0 /\ d.translations[i] = Zero3)
  /\ JobsReady =>
       \A type \in PbvhTypes : \A n \in Nodes :
         LET idx == NodeElements(type, n)
             d == calc_node(type, hide_vert, pos0, step, n, EmptyLocalData)
         IN \A i \in DOMAIN idx :
              Disallowed(pos0[idx[i]]) => (d.factors[i] = 0 /\ d.translations[i] = Zero3)
\* a returned flipped step in which the filter stopped an element below the
\* plane whose factor was positive, while an element above the plane moved
C22_Witness ==
  /\ pc = "Returned" /\ Stepped
  /\ step.flip
  /\ \E n \in finished : ZeroedBy(n, "filter_below_plane_factors")
  /\ \E v \in Moved : plane_point_side(step.plane, pos0[v]) > 0

\* the places of the last four calls in a sequence of call names
TailOrder(names) ==
  LET at(name) == IF \E k \in DOMAIN names : names[k] = name
                  THEN CHOOSE k \in DOMAIN names : names[k] = name
                  ELSE 0
  IN /\ 0 < at("calc_translations_to_plane")
     /\ at("calc_translations_to_plane") < at("filter_plane_trim_limit_factors")
     /\ at("filter_plane_trim_limit_factors") < at("scale_translations")
     /\ at("scale_translations") < at("clip_and_lock_translations")
     /\ at("clip_and_lock_translations") = Len(names)
\* the elements of node n have been scattered to
Scattered(n) == n \in finished \/ \E t \in Threads : job[t].node = n /\ job[t].at = "bounds"
\* C23 Trim before mirror clip: in each adapter the calls end with projection,
\* trim filter, scaling, clip and lock, in this order.  In the job of a node
\* the trim filter decides on the projection of the positions the step began
\* with, unscaled and unclipped; clip and lock changes no factor; the
\* translations scattered are the clipped, scaled projection; and the
\* positions of the node are those of the step's start until the scatter and
\* the start positions plus these translations from then on.
C23_TrimBeforeClip ==
  /\ pc = "Idle" => \A type \in PbvhTypes : TailOrder(calc_node_stages(type))
  /\ \A t \in Threads :
       job[t].at = "scatter" =>
         LET n == job[t].node
             tr == TraceOf(t)
             idx == NodeElements(pbvhType, n)
             P0 == StagePositions(pbvhType, pos0, n)
             kt == StageAt(tr, "filter_plane_trim_limit_factors")
             proj == calc_translations_to_plane(P0, idx, step.plane, [i \in DOMAIN idx |-> Zero3])
             d == all_tls[job[t].tls]
         IN /\ TailOrder([k \in DOMAIN tr |-> tr[k].stage])
            /\ tr[kt - 1].data.translations = proj
            /\ tr[kt].data.factors =
                 filter_plane_trim_limit_factors(brush, proj, tr[kt - 1].data.factors)
            /\ d.factors = tr[kt].data.factors
            /\ d.translations =
                 clip_and_lock_translations(sd.lock, cache.mirror_clip, P0, idx,
                                            scale_translations(proj, tr[kt].data.factors))
            /\ \A i \in DOMAIN idx : positions[idx[i]] = pos0[idx[i]]
  /\ \A n \in Nodes :
       Scattered(n) =>
         LET idx == NodeElements(pbvhType, n)
             d == calc_node(pbvhType, hide_vert, pos0, step, n, EmptyLocalData)
         IN \A i \in DOMAIN idx : positions[idx[i]] = VAdd(pos0[idx[i]], d.translations[i])
\* a job about to scatter in which the trim filter stopped an element whose
\* clipped projection is within the limit, and clip and lock shortened the
\* translation of another element
C23_Witness ==
  \E t \in Threads :
    /\ job[t].at = "scatter"
    /\ brush.plane_trim_on /\ cache.mirror_clip # {}
    /\ LET n == job[t].node
           tr == TraceOf(t)
           idx == NodeElements(pbvhType, n)
           P0 == StagePositions(pbvhType, pos0, n)
           kt == StageAt(tr, "filter_plane_trim_limit_factors")
           proj == tr[kt - 1].data.translations
           clipped == clip_and_lock_translations(sd.lock, cache.mirror_clip, P0, idx, proj)
       IN /\ \E i \in DOMAIN idx :
               /\ tr[kt - 1].data.factors[i] > 0 /\ tr[kt].data.factors[i] = 0
               /\ LengthSquared(clipped[i]) <= brush.plane_trim * brush.plane_trim
          /\ \E j \in DOMAIN idx :
               /\ tr[Len(tr)].data.translations[j] # tr[Len(tr) - 1].data.translations[j]
               /\ tr[Len(tr)].data.translations[j] # Zero3

\* C24 Factor applied exactly once: in the job of a node, the translations
\* handed to clip_and_lock_translations are, element by element, the
\* projection onto the plane multiplied once by the factor the element has
\* after the trim filter, its final factor; the adapter's result before clip
\* and lock holds the same translations.
C24_FactorOnce ==
  \A t \in Threads :
    job[t].at = "scatter" =>
      LET n == job[t].node
          tr == TraceOf(t)
          idx == NodeElements(pbvhType, n)
          P0 == StagePositions(pbvhType, pos0, n)
          ks == StageAt(tr, "scale_translations")
          kc == StageAt(tr, "clip_and_lock_translations")
          proj == calc_translations_to_plane(P0, idx, step.plane, [i \in DOMAIN idx |-> Zero3])
          d == all_tls[job[t].tls]
          scaled == calc_node_scaled(pbvhType, hide_vert, pos0, step, n, EmptyLocalData)
      IN /\ 0 < ks /\ kc = ks + 1 /\ kc = Len(tr)
         /\ tr[kc].data = d
         /\ tr[ks].data.factors = d.factors
         /\ scaled.translations = tr[ks].data.translations
         /\ \A i \in DOMAIN idx :
              tr[ks].data.translations[i] = VScale(proj[i], d.factors[i])
\* a job about to scatter with an element whose factor is neither 0 nor 1,
\* for which scaling once differs from not scaling and from scaling twice
C24_Witness ==
  \E t \in Threads :
    /\ job[t].at = "scatter"
    /\ LET n == job[t].node
           idx == NodeElements(pbvhType, n)
           proj == calc_translations_to_plane(StagePositions(pbvhType, pos0, n), idx, step.plane,
                                              [i \in DOMAIN idx |-> Zero3])
           d == all_tls[job[t].tls]
       IN \E i \in DOMAIN idx :
            /\ d.factors[i] \notin {0, One}
            /\ d.translations[i] = VScale(proj[i], d.factors[i])
            /\ d.translations[i] # proj[i]
            /\ d.translations[i] # VScale(VScale(proj[i], d.factors[i]), d.factors[i])

\* a step that changes the record of bounds writes of a node is the bounds
\* update that ends the job of that node on some thread, and it changes the
\* bounds of no other node; no step of the parallel phase changes the parent
\* bounds
OwnBoundsStep ==
  /\ \A n \in Nodes :
       (bounds_writes'[n] # bounds_writes[n] \/ bounds'[n] # bounds[n]) =>
         /\ \E t \in Threads : /\ job[t].node = n /\ job[t].at = "bounds"
                               /\ job'[t] = IdleJob
         /\ writes[n] = JobWrites(n)
         /\ \A m \in Nodes \ {n} : bounds'[m] = bounds[m]
  /\ pc = "Stepping" => parent_bounds' = parent_bounds
\* C25 Own bounds slot only: the job of a node writes the bounds of that node
\* and of no other, once, after its scatter and as the last statement of the
\* job; the bounds of a node whose job has not completed are those of the
\* step's start, those of a completed node are the box around its scattered
\* positions; during the parallel phase the parent bounds are those of the
\* step's start and no flush has run.
C25_OwnBoundsSlot ==
  /\ [](/\ \A n \in Nodes :
             /\ bounds_writes[n] \subseteq {n}
             /\ bounds_writes[n] = {n} <=> n \in finished
             /\ n \in finished =>
                  /\ writes[n] = JobWrites(n)
                  /\ bounds[n] = update_node_bounds(pbvhType, positions, n)
             /\ n \notin finished => bounds[n] = bounds0[n]
        /\ pc = "Stepping" =>
             (parent_bounds = flush_bounds_to_parents(bounds0) /\ flush_count = 0))
  /\ [][OwnBoundsStep]_vars
\* the parallel phase with the bounds of one node rewritten by its completed
\* job while the job of another node has scattered and not yet updated its
\* bounds, which no longer fit its positions
C25_Witness ==
  /\ pc = "Stepping"
  /\ \E n \in finished, t \in Threads :
       /\ bounds[n] # bounds0[n]
       /\ job[t].at = "bounds" /\ job[t].node # n
       /\ bounds[job[t].node] = bounds0[job[t].node]
       /\ bounds0[job[t].node] # update_node_bounds(pbvhType, positions, job[t].node)

\* how far along its normal the reference plane of the step lies from the
\* average position of the touched elements: the displacement of the anchor
AnchorShift ==
  -step.plane.d - Dot(step.plane.normal,
                      AveragePosition(pos0, TouchedElements(pbvhType, node_mask)))
\* C26 as stated: the anchor is moved along the plane normal by
\* radius * (0.18 + offset), radius being the stroke cache radius, whatever
\* the other fields of the stroke cache.
C26_AnchorAsStated ==
  Stepped => AnchorShift = FMul(cache.radius, PlaneDisplaceFactor + brush.plane_offset)
\* C26 Plane anchor displacement, amended: the anchor is moved along the plane
\* normal by scale * r * (0.18 + offset), where scale is the stroke cache
\* scale and r is the stroke cache radius, negated when the signed strength
\* is negative; the plane normal is the sampled normal.
C26_AnchorDisplacement ==
  Stepped =>
    /\ step.plane.normal = ss.normal
    /\ AnchorShift =
         FMul(cache.scale,
              FMul(IF cache.bstrength < 0 THEN -cache.radius ELSE cache.radius,
                   PlaneDisplaceFactor + brush.plane_offset))
\* a returned step of negative strength, scale 2 and a plane offset, in which
\* an element moved and the anchor is elsewhere than radius * (0.18 + offset)
C26_Witness ==
  /\ pc = "Returned" /\ Stepped
  /\ cache.bstrength < 0 /\ cache.scale # One /\ brush.plane_offset # 0
  /\ AnchorShift # FMul(cache.radius, PlaneDisplaceFactor + brush.plane_offset)
  /\ AnchorShift # 0
  /\ Moved # {}

\* the orchestrator's state: in the invocation of a step, or not
Orchestrator == IF pc \in {"Idle", "Returned"} THEN "Idle" ELSE "Stepping"
\* C27 Step termination: with every worker scheduled fairly every invocation
\* returns: the orchestrator, Idle when the step is invoked, is Idle again
\* after it, with no job running, no index of the mask left and every node
\* of the mask done, and it stays so; a job is in work only while the
\* orchestrator is Stepping; and a job in work on a worker that is scheduled
\* fairly completes whether or not any other worker ever runs.
C27_StepTermination ==
  /\ (\A t \in Threads : WorkerFairness(t)) => ((pc = "Idle") ~> (pc = "Returned"))
  /\ \A t \in Threads :
       WorkerFairness(t) => ((job[t].at # "idle") ~> (job[t].at = "idle"))
  /\ [](/\ pc = "Returned" =>
             /\ Orchestrator = "Idle"
             /\ pending = {}
             /\ \A t \in Threads : job[t].at = "idle"
             /\ ~DegenerateStroke => finished = node_mask
        /\ \A t \in Threads : job[t].at # "idle" => Orchestrator = "Stepping")
  /\ [][pc = "Returned" => pc' = "Returned"]_vars
\* a step that has returned after the jobs of all nodes, run by every thread
C27_Witness ==
  /\ pc = "Returned" /\ Stepped
  /\ Orchestrator = "Idle"
  /\ node_mask = Nodes /\ finished = Nodes
  /\ \A t \in Threads : obtained[t] # {} /\ job[t].at = "idle"

\* a LocalData left behind by an earlier node: every buffer of length len,
\* every element holding g
StaleLocalData(len, g) ==
  [positions |-> [i \in 1..len |-> <<g, g, g>>], factors |-> [i \in 1..len |-> g],
   distances |-> [i \in 1..len |-> g], translations |-> [i \in 1..len |-> <<g, g, g>>]]
\* shorter and longer than any node, or of the length of one
StaleLengths == {1, GridArea, 2 * GridArea, 2 * GridArea + 1}
StaleValues == {Uninit, One, 2 * One + 1}
\* no element of the buffers of d is one that a resize left unwritten
AllWritten(d) ==
  /\ \A i \in DOMAIN d.factors : d.factors[i] # Uninit
  /\ \A i \in DOMAIN d.distances : d.distances[i] # Uninit
  /\ \A i \in DOMAIN d.translations : \A a \in 1..3 : d.translations[i][a] # Uninit
  /\ \A i \in DOMAIN d.positions : \A a \in 1..3 : d.positions[i][a] # Uninit
\* C28 No stale scratch data: what a job about to scatter holds in its
\* LocalData (factors, distances, translations, gathered positions) is what
\* the adapter computes for its node from a new LocalData and from a
\* LocalData of any earlier length holding any values; no element is left
\* as a resize made it.
C28_NoStaleScratch ==
  \A t \in Threads :
    job[t].at = "scatter" =>
      LET n == job[t].node
          d == all_tls[job[t].tls]
      IN /\ AllWritten(d)
         /\ ScratchSized(d, n)
         /\ d.factors = calc_node(pbvhType, hide_vert, positions, step, n, EmptyLocalData).factors
         /\ \A len \in StaleLengths, g \in StaleValues :
              LET r == calc_node(pbvhType, hide_vert, positions, step, n, StaleLocalData(len, g))
              IN /\ r.factors = d.factors
                 /\ r.distances = d.distances
                 /\ r.translations = d.translations
                 /\ pbvhType # "Mesh" => r.positions = d.positions
\* a job about to scatter on the LocalData that served a smaller node with
\* elements before, so that buffers grew, with an element that will move
C28_Witness ==
  \E t \in Threads :
    /\ job[t].at = "scatter"
    /\ tls_created = {job[t].tls}
    /\ \E m \in finished :
         /\ NodeElements(pbvhType, m) # <<>>
         /\ Len(NodeElements(pbvhType, m)) < Len(NodeElements(pbvhType, job[t].node))
    /\ \E i \in DOMAIN all_tls[job[t].tls].translations :
         /\ i > GridArea
         /\ all_tls[job[t].tls].translations[i] # Zero3

\* the nodes element v belongs to
OwnersOf(v) == {n \in Nodes : v \in SeqRange(NodeElements(pbvhType, n))}
\* C29 Untouched nodes are unchanged: at every point of a step, an element
\* none of whose nodes is in the mask has the position it had when the step
\* was invoked; for a node outside the mask no job is begun, none of its
\* elements is written, its bounds are those of the step's start and no job
\* has written them; the jobs write elements of the mask's nodes only.
C29_UntouchedNodes ==
  /\ \A v \in Verts : OwnersOf(v) \cap node_mask = {} => positions[v] = pos0[v]
  /\ \A n \in Nodes \ node_mask :
       /\ runs[n] = 0 /\ writes[n] = {}
       /\ bounds[n] = bounds0[n]
       /\ \A m \in Nodes : n \notin bounds_writes[m]
       /\ \A t \in Threads : job[t].node # n
  /\ UNION {writes[n] : n \in Nodes} \subseteq TouchedElements(pbvhType, node_mask)
  /\ Moved \subseteq TouchedElements(pbvhType, node_mask)
\* a returned step that moved elements and left out a node with an element
\* its adapter would have moved
C29_Witness ==
  /\ pc = "Returned" /\ Stepped
  /\ Moved # {}
  /\ \E n \in Nodes \ node_mask :
       \E i \in DOMAIN NodeElements(pbvhType, n) :
         calc_node(pbvhType, hide_vert, pos0, step, n, EmptyLocalData).translations[i] # Zero3

\* translation tr of an element at p stays on the element's side of the
\* reference plane: along the normal, towards the plane, not past it
NoOvershoot(p, tr) ==
  LET side == plane_point_side(step.plane, p)
      after == plane_point_side(step.plane, VAdd(p, tr))
      along == Dot(tr, step.plane.normal)
  IN /\ Cross(tr, step.plane.normal) = Zero3
     /\ tr = VScale(step.plane.normal, along)
     /\ along * side <= 0
     /\ Abs(along) <= Abs(side)
     /\ after * side >= 0
     /\ Abs(after) <= Abs(side)
NoClipLock == sd.lock = {} /\ cache.mirror_clip = {}
\* C30 No overshoot: with no axis locked and no mirror clip, an element whose
\* final factor is between 0 and 1 is translated along the plane normal,
\* towards the reference plane and by at most its distance to it; once
\* scattered it is on the side of the plane it started on, or on the plane.
C30_NoOvershoot ==
  /\ \A t \in Threads :
       (job[t].at = "scatter" /\ NoClipLock) =>
         LET idx == NodeElements(pbvhType, job[t].node)
             d == all_tls[job[t].tls]
         IN \A i \in DOMAIN idx :
              (0 <= d.factors[i] /\ d.factors[i] <= One) =>
                NoOvershoot(pos0[idx[i]], d.translations[i])
  /\ (pc = "Returned" /\ Stepped /\ NoClipLock) =>
       \A n \in node_mask :
         LET idx == NodeElements(pbvhType, n)
             d == calc_node(pbvhType, hide_vert, pos0, step, n, EmptyLocalData)
         IN \A i \in DOMAIN idx :
              (0 <= d.factors[i] /\ d.factors[i] <= One) =>
                NoOvershoot(pos0[idx[i]], VSub(positions[idx[i]], pos0[idx[i]]))
\* a job about to scatter, nothing locked or clipped, with an element of a
\* factor strictly between 0 and 1 that moves part of the way to the plane,
\* and an element of a factor above 1 that is carried past the plane
C30_Witness ==
  \E t \in Threads :
    /\ job[t].at = "scatter" /\ NoClipLock
    /\ LET idx == NodeElements(pbvhType, job[t].node)
           d == all_tls[job[t].tls]
       IN /\ \E i \in DOMAIN idx :
               /\ 0 < d.factors[i] /\ d.factors[i] < One
               /\ d.translations[i] # Zero3
               /\ plane_point_side(step.plane, VAdd(pos0[idx[i]], d.translations[i])) # 0
          /\ \E j \in DOMAIN idx :
               /\ d.factors[j] > One
               /\ ~NoOvershoot(pos0[idx[j]], d.translations[j])
====
